---- MODULE Spec2Model ----
(***************************************************************************)
(* Model of the GPU resource lifecycle and frame-orchestration layer of    *)
(* ascii_dungeon: the device/frame context (begin_frame, end_frame,        *)
(* recreate_swapchain), the acceleration-structure manager (build_tlas),   *)
(* the ray-tracing pipeline's TLAS descriptor, and the frame loop of main. *)
(***************************************************************************)
EXTENDS Integers, Sequences, FiniteSets, TLC

VARIABLES
    pc,                \* position of main(): startup steps, frame loop, exit
    vk,                \* VulkanContext fields
    win,               \* Window fields the context reads
    gpu,               \* submissions the GPU has not completed, oldest first
    accel,             \* AccelerationStructureManager fields
    rt,                \* RTPipeline fields
    tick,              \* what the current loop iteration has done so far
    last,              \* the last VulkanContext call: inputs, path, outcome
    acall,             \* the last AccelerationStructureManager call
    pcall,             \* the last RTPipeline call: arguments, path, outcome
    trace,             \* the last trace_rays recorded by the frame loop
    buffers,           \* Buffer objects of a caller and the allocations behind them
    cam,               \* camera pose shared by the frame loop and the control thread
    sbt,               \* the shader binding table create_shader_binding_table laid out
    lit,               \* the light array of main() and what was reported of it
    td,                \* what the destructors at the end of main() have done
    scene,             \* the instance and shading-record arrays main() builds
    sem,               \* semaphores, fences and swapchain images as the driver sees them
    shot               \* the end-of-run screenshot: the pixel buffer captured and the walk over it

vars ==
    <<pc, vk, win, gpu, accel, rt, tick, last, acall, pcall, trace, buffers, cam, sbt, lit, td, scene, sem,
      shot>>

----------------------------------------------------------------------------
(* Program constants *)

MAX_FRAMES_IN_FLIGHT == 2
MaxAttempts == 100
MaxSaneImageCount == 100
MaxSaneExtent == 16384
NULL == 0
SIZE_MAX == 2147483647  \* the value size_t 0 - 1 wraps to
room_size == 10
PitchLimit == 1      \* glm::clamp(camera_pitch, -1.5f, 1.5f), in units of 1.5
InitialInstanceCapacity == 1024
InitialLightCapacity == 64
GlyphInstanceSize == 32
LightSize == 32

(* Bounds of the model *)

MaxDim == 1          \* widest window
MaxQueue == 2        \* submissions the GPU queue holds in the model
MaxInstances == 2    \* longest instance list handed to build_tlas
MaxBlas == 2         \* BLAS the manager's harness creates
MaxHandles == 8      \* handles and buffers the manager's harness allocates
MaxBufferObjects == 2  \* Buffer objects a caller holds at a time
MaxAllocations == 3  \* allocations the Buffer objects' caller makes
MaxPose == 1         \* largest magnitude of a camera field
MaxHandleSize == 8   \* largest shader group handle size
MaxReports == 5      \* requests the control client sends for the lights
MaxSwapImages == 3   \* most images a swapchain holds

Slots == 0 .. (MAX_FRAMES_IN_FLIGHT - 1)

(* Window sizes <<width, height>>: zero in one dimension (minimized), or   *)
(* non-zero in both.                                                       *)
WinSizes == {<<0, 1>>, <<1, 0>>} \cup {<<w, 1>> : w \in 1 .. MaxDim}

(* The same and a window one step wider than MaxDim. *)
WideSizes == WinSizes \cup {<<MaxDim + 1, 1>>}

IsZeroSize(s) == s[1] = 0 \/ s[2] = 0

NonZeroSizes == {s \in WinSizes : ~IsZeroSize(s)}

(* Results vkAcquireNextImageKHR and vkQueuePresentKHR report; "ERROR"     *)
(* stands for every other failure code (device lost, out of memory, ...).  *)
SwapResults == {"SUCCESS", "SUBOPTIMAL", "OUT_OF_DATE", "SURFACE_LOST", "ERROR"}

(* The results the specification lists as transient. *)
Transient == {"OUT_OF_DATE", "SUBOPTIMAL", "SURFACE_LOST"}

(* Surface and swapchain handles are 1 or 2: the handle the driver hands   *)
(* out for a new object differs from the one the object it replaces had.   *)
FreshAfter(h) == IF h = 1 THEN 2 ELSE 1

SeqToSet(s) == {s[i] : i \in 1 .. Len(s)}

----------------------------------------------------------------------------
(* The world the context's functions run in: a record of the context, the  *)
(* window and the GPU queue, plus the handles the call started with, what  *)
(* the running call has done (log) and the exception it has thrown.        *)

World == [vk |-> vk, win |-> win, gpu |-> gpu,
          oldSurface |-> vk.m_surface, oldSwapchain |-> vk.m_swapchain,
          log |-> <<>>, raised |-> "", polls |-> 0, query |-> "none",
          rcEntered |-> FALSE, rcPath |-> "none", resetPending |-> FALSE,
          acq |-> "none", submit |-> "none", present |-> "none",
          resizeSeen |-> FALSE, early |-> FALSE,
          signals |-> NULL, waits |-> NULL]

Logged(w, e) == [w EXCEPT !.log = Append(@, e)]

Raise(w, what) == [w EXCEPT !.raised = what]

(* vkDeviceWaitIdle: returns once every submission has completed; each     *)
(* completed submission signals the fence it was submitted with and leaves *)
(* its one-time-submit command buffer invalid.                             *)
wait_idle(w) ==
    [Logged(w, "wait_idle") EXCEPT
        !.gpu = <<>>,
        !.vk.m_in_flight_fences =
            [s \in Slots |-> IF s \in SeqToSet(w.gpu) THEN TRUE ELSE @[s]],
        !.vk.m_command_buffers =
            [s \in Slots |-> IF s \in SeqToSet(w.gpu) THEN "invalid" ELSE @[s]]]

----------------------------------------------------------------------------
(* VulkanContext: swapchain recreation *)

(* What the device answers to vkGetPhysicalDeviceSurfaceCapabilitiesKHR:   *)
(* a result code and, on success, minImageCount and currentExtent.  The    *)
(* samples sit on both sides of the limits the sanity check compares with. *)
QueryResponses ==
    {[result |-> "SURFACE_LOST", minImageCount |-> 0, width |-> 0, height |-> 0],
     [result |-> "ERROR", minImageCount |-> 0, width |-> 0, height |-> 0],
     [result |-> "SUCCESS", minImageCount |-> 2, width |-> 1, height |-> 1],
     [result |-> "SUCCESS", minImageCount |-> MaxSaneImageCount,
      width |-> MaxSaneExtent, height |-> MaxSaneExtent],
     [result |-> "SUCCESS", minImageCount |-> MaxSaneImageCount + 1,
      width |-> 1, height |-> 1],
     [result |-> "SUCCESS", minImageCount |-> 2,
      width |-> MaxSaneExtent + 1, height |-> 1],
     [result |-> "SUCCESS", minImageCount |-> 2,
      width |-> 1, height |-> MaxSaneExtent + 1]}

(* Device calls of the rebuild that can fail. *)
Faults == {"none", "create_surface", "create_swapchain", "create_image_view"}

(* Number of images a new swapchain comes with. *)
ImageCounts == {1, 2}

(* The poll after which the window first reports a non-zero size, counted  *)
(* from 1; 0 when it stays zero-sized for the whole loop.                  *)
PollSamples == {0, 1, MaxAttempts, MaxAttempts + 1}

(* The device's answer as the specification classifies it: lost, failed,   *)
(* or successful with plausible or implausible values (minImageCount above *)
(* 100, or a current-extent dimension above 16384).                        *)
QueryClass(q) ==
    IF q.result # "SUCCESS" THEN q.result
    ELSE IF q.minImageCount > 100 \/ q.width > 16384 \/ q.height > 16384
         THEN "IMPLAUSIBLE" ELSE "SANE"

(* A sanity check that also rejects the limits themselves. *)
CapsImplausibleInclusive(q) ==
    \/ q.minImageCount >= MaxSaneImageCount
    \/ q.width >= MaxSaneExtent
    \/ q.height >= MaxSaneExtent

(* The check recreate_swapchain makes of the capabilities it was given. *)
CapsImplausible(q) ==
    \/ q.minImageCount > MaxSaneImageCount
    \/ q.width > MaxSaneExtent
    \/ q.height > MaxSaneExtent

(* What the rebuild is given once the loop is over: the device's answer,   *)
(* the call that fails if any, and the image count of the new swapchain.   *)
(* Only the inputs the path reads vary: no fault after a failed query, a   *)
(* failing create_surface only where the surface is recreated, one image   *)
(* count where no swapchain comes to exist.                                *)
RebuildInputs ==
    {b \in [q : QueryResponses, fault : Faults, n : ImageCounts] :
        /\ b.q.result = "ERROR" => b.fault = "none" /\ b.n = 1
        /\ b.fault = "create_surface" =>
              b.q.result = "SURFACE_LOST" \/ CapsImplausible(b.q)
        /\ b.fault # "none" => b.n = 1}

DefaultRebuild == [q |-> CHOOSE q \in QueryResponses : q.result = "ERROR",
                   fault |-> "none", n |-> 1]

(* Inputs of one run of recreate_swapchain entered with window size sz: k  *)
(* is the poll after which the window first reports a non-zero size, size  *)
(* that size.  Nothing after the loop is read when the loop gives up.      *)
RcInputsFrom(ks, rebuilds) ==
    [sz \in WideSizes |->
        IF ~IsZeroSize(sz)
        THEN {[k |-> 0, size |-> sz, q |-> b.q, fault |-> b.fault, n |-> b.n] :
                b \in rebuilds}
        ELSE {[k |-> k, size |-> s, q |-> b.q, fault |-> b.fault, n |-> b.n] :
                k \in {j \in ks : j # 0 /\ j <= MaxAttempts},
                s \in NonZeroSizes, b \in rebuilds}
             \cup
             {[k |-> k, size |-> s, q |-> DefaultRebuild.q,
               fault |-> DefaultRebuild.fault, n |-> DefaultRebuild.n] :
                k \in {j \in ks : j = 0 \/ j > MaxAttempts},
                s \in NonZeroSizes}]

(* Every sample: the inputs of the calls the recreation harness makes. *)
RcInputsFor == RcInputsFrom(PollSamples, RebuildInputs)

(* One device answer of each kind and the two ways the loop ends: the      *)
(* inputs of the recreations the frame loop runs.                          *)
FrameRebuildInputs ==
    {b \in RebuildInputs :
        b.q.result = "SUCCESS" => b.q.minImageCount \in {2, MaxSaneImageCount + 1}}

FrameRcInputsFor == RcInputsFrom({0, 1}, FrameRebuildInputs)

RcInputs(w) == FrameRcInputsFor[<<w.win.m_width, w.win.m_height>>]

NoRcInput == CHOOSE r \in RcInputsFor[<<0, 1>>] : TRUE

(* A loop that gives up as soon as the counter reaches the limit. *)
PollLoopGivesUpEarly(k) ==
    LET ends  == {a \in 1 .. (MaxAttempts + 2) :
                    a >= MaxAttempts \/ (k # 0 /\ a >= k)}
        polls == CHOOSE a \in ends : \A b \in ends : a <= b
    IN  [polls |-> polls, gaveUp |-> polls >= MaxAttempts]

(* The while loop of recreate_swapchain when the window is zero-sized on   *)
(* entry: poll a (a = 1, 2, ...) is the last one iff ++attempts then       *)
(* exceeds the limit, or else the size read at the next loop head is       *)
(* non-zero.  The loop gives up iff the first of these ends it.            *)
PollLoop(k) ==
    LET ends  == {a \in 1 .. (MaxAttempts + 2) :
                    a > MaxAttempts \/ (k # 0 /\ a >= k)}
        polls == CHOOSE a \in ends : \A b \in ends : a <= b
    IN  [polls |-> polls, gaveUp |-> polls > MaxAttempts]

PollTable == [k \in PollSamples |-> PollLoop(k)]

(* The loop from any entry state: no poll when the size is non-zero. *)
PollOutcome(zero, k) ==
    IF zero THEN PollTable[k] ELSE [polls |-> 0, gaveUp |-> FALSE]

(* The window after `polls` polls: the resize callback has run iff the     *)
(* size became non-zero during one of them.                                *)
PollWindow(w, polls, in) ==
    IF in.k # 0 /\ polls >= in.k
    THEN [w EXCEPT !.win.m_width = in.size[1], !.win.m_height = in.size[2],
                   !.win.m_resized = TRUE, !.polls = polls]
    ELSE [w EXCEPT !.polls = polls]

cleanup_swapchain(w) ==
    LET w1 == IF w.vk.m_swapchain_image_views > 0
              THEN Logged(w, "destroy_image_views") ELSE w
        w2 == [w1 EXCEPT !.vk.m_swapchain_image_views = 0]
    IN  IF w2.vk.m_swapchain # NULL
        THEN [Logged(w2, "destroy_swapchain") EXCEPT !.vk.m_swapchain = NULL]
        ELSE w2

recreate_surface(w, in) ==
    LET w1 == IF w.vk.m_surface # NULL
              THEN [Logged(w, "destroy_surface") EXCEPT !.vk.m_surface = NULL]
              ELSE w
    IN  IF in.fault = "create_surface"
        THEN Raise(w1, "create_surface")
        ELSE [Logged(w1, "create_surface") EXCEPT
                !.vk.m_surface = FreshAfter(w.oldSurface)]

create_swapchain(w, in) ==
    IF in.fault = "create_swapchain"
    THEN Raise(w, "create_swapchain")
    ELSE [Logged(w, "create_swapchain") EXCEPT
            !.vk.m_swapchain = FreshAfter(w.oldSwapchain),
            !.vk.m_swapchain_images = in.n,
            !.vk.m_swapchain_extent = <<w.win.m_width, w.win.m_height>>]

create_image_views(w, in) ==
    LET w1 == [w EXCEPT !.vk.m_swapchain_image_views = w.vk.m_swapchain_images]
    IN  IF in.fault = "create_image_view"
        THEN Raise(w1, "create_image_view")
        ELSE Logged(w1, "create_image_views")

(* create_swapchain(); create_image_views(); m_framebuffer_resized = false *)
RebuildSwapchain(w, in) ==
    IF w.raised # "" THEN w
    ELSE LET w1 == create_swapchain(w, in)
         IN  IF w1.raised # "" THEN w1
             ELSE LET w2 == create_image_views(w1, in)
                  IN  IF w2.raised # "" THEN w2
                      ELSE [w2 EXCEPT !.vk.m_framebuffer_resized = FALSE,
                                      !.rcPath = "rebuilt"]

(* A recreation that cleans the swapchain up before it looks at the        *)
(* query's result.                                                         *)
recreate_swapchain_cleanup_first(w, in) ==
    LET w0   == [w EXCEPT !.rcEntered = TRUE]
        loop == PollOutcome(IsZeroSize(<<w.win.m_width, w.win.m_height>>), in.k)
        w1   == PollWindow(w0, loop.polls, in)
    IN  IF loop.gaveUp
        THEN [w1 EXCEPT !.vk.m_framebuffer_resized = FALSE, !.rcPath = "gave_up"]
        ELSE LET w2 == cleanup_swapchain([wait_idle(w1) EXCEPT !.query = QueryClass(in.q)])
             IN  IF in.q.result = "SURFACE_LOST"
                 THEN RebuildSwapchain(recreate_surface(w2, in), in)
                 ELSE IF in.q.result # "SUCCESS"
                 THEN [w2 EXCEPT !.vk.m_framebuffer_resized = FALSE,
                                 !.rcPath = "query_failed"]
                 ELSE IF CapsImplausible(in.q)
                 THEN RebuildSwapchain(recreate_surface(w2, in), in)
                 ELSE RebuildSwapchain(w2, in)

(* A recreation that does not wait for the device before it destroys. *)
recreate_swapchain_unwaited(w, in) ==
    LET w0   == [w EXCEPT !.rcEntered = TRUE]
        loop == PollOutcome(IsZeroSize(<<w.win.m_width, w.win.m_height>>), in.k)
        w1   == PollWindow(w0, loop.polls, in)
    IN  IF loop.gaveUp
        THEN [w1 EXCEPT !.vk.m_framebuffer_resized = FALSE, !.rcPath = "gave_up"]
        ELSE LET w2 == [w1 EXCEPT !.query = QueryClass(in.q)]
             IN  IF in.q.result = "SURFACE_LOST"
                 THEN RebuildSwapchain(recreate_surface(cleanup_swapchain(w2), in), in)
                 ELSE IF in.q.result # "SUCCESS"
                 THEN [w2 EXCEPT !.vk.m_framebuffer_resized = FALSE,
                                 !.rcPath = "query_failed"]
                 ELSE IF CapsImplausible(in.q)
                 THEN RebuildSwapchain(recreate_surface(cleanup_swapchain(w2), in), in)
                 ELSE RebuildSwapchain(cleanup_swapchain(w2), in)

recreate_swapchain(w, in) ==
    LET w0   == [w EXCEPT !.rcEntered = TRUE]
        loop == PollOutcome(IsZeroSize(<<w.win.m_width, w.win.m_height>>), in.k)
        w1   == PollWindow(w0, loop.polls, in)
    IN  IF loop.gaveUp
        THEN [w1 EXCEPT !.vk.m_framebuffer_resized = FALSE, !.rcPath = "gave_up"]
        ELSE LET w2 == [wait_idle(w1) EXCEPT !.query = QueryClass(in.q)]
             IN  IF in.q.result = "SURFACE_LOST"
                 THEN RebuildSwapchain(recreate_surface(cleanup_swapchain(w2), in), in)
                 ELSE IF in.q.result # "SUCCESS"
                 THEN [w2 EXCEPT !.vk.m_framebuffer_resized = FALSE,
                                 !.rcPath = "query_failed"]
                 ELSE IF CapsImplausible(in.q)
                 THEN RebuildSwapchain(recreate_surface(cleanup_swapchain(w2), in), in)
                 ELSE RebuildSwapchain(cleanup_swapchain(w2), in)

----------------------------------------------------------------------------
(* VulkanContext: begin_frame and end_frame *)

(* Inputs of begin_frame: the result of vkAcquireNextImageKHR, the image   *)
(* index it returns, whether vkBeginCommandBuffer fails, and the inputs of *)
(* the swapchain recreation the call may run.                              *)
BeginInputs(w) ==
    {[acq |-> a, idx |-> 0, beginFault |-> FALSE, rc |-> r] :
        a \in {"OUT_OF_DATE", "SURFACE_LOST"}, r \in RcInputs(w)}
    \cup
    {[acq |-> a, idx |-> i, beginFault |-> b, rc |-> NoRcInput] :
        a \in {"SUCCESS", "SUBOPTIMAL"},
        i \in 0 .. (w.vk.m_swapchain_images - 1), b \in BOOLEAN}
    \cup
    {[acq |-> "ERROR", idx |-> 0, beginFault |-> FALSE,
      rc |-> NoRcInput]}

(* begin_frame after vkWaitForFences has returned. *)
begin_frame(w, in) ==
    LET cur == w.vk.m_current_frame
        w0  == [w EXCEPT !.acq = in.acq]
    IN  IF in.acq = "OUT_OF_DATE" \/ in.acq = "SURFACE_LOST"
        THEN [recreate_swapchain(w0, in.rc) EXCEPT !.early = TRUE]
        ELSE IF in.acq # "SUCCESS" /\ in.acq # "SUBOPTIMAL"
        THEN Raise(w0, "acquire")
        ELSE LET w1 == [w0 EXCEPT
                          !.vk.m_image_index = in.idx,
                          !.vk.m_in_flight_fences[cur] = FALSE,   \* vkResetFences
                          !.vk.m_command_buffers[cur] = "initial", \* vkResetCommandBuffer
                          !.resetPending = cur \in SeqToSet(w.gpu)]
             IN  IF in.beginFault
                 THEN Raise(w1, "begin_command_buffer")
                 ELSE [w1 EXCEPT !.vk.m_command_buffers[cur] = "recording"]

(* Inputs of end_frame: whether vkEndCommandBuffer fails, the result of    *)
(* vkQueueSubmit and of vkQueuePresentKHR, and the recreation's inputs.    *)
(* The queue of the model accepts a submission while it holds fewer than   *)
(* MaxQueue.                                                               *)
EndInputs(w) ==
    {[endFault |-> TRUE, submit |-> "none", present |-> "none",
      rc |-> NoRcInput]}
    \cup
    {[endFault |-> FALSE, submit |-> "ERROR", present |-> "none",
      rc |-> NoRcInput]}
    \cup
    {[endFault |-> FALSE, submit |-> "SUCCESS", present |-> p, rc |-> r] :
        p \in {q \in SwapResults :
                 /\ Len(w.gpu) < MaxQueue
                 /\ q \in {"OUT_OF_DATE", "SUBOPTIMAL"} \/ w.win.m_resized},
        r \in RcInputs(w)}
    \cup
    {[endFault |-> FALSE, submit |-> "SUCCESS", present |-> p, rc |-> NoRcInput] :
        p \in {q \in SwapResults :
                 /\ Len(w.gpu) < MaxQueue
                 /\ ~(q \in {"OUT_OF_DATE", "SUBOPTIMAL"} \/ w.win.m_resized)}}

(* The semaphores of a frame slot, as handles: m_image_available_semaphores *)
(* and m_render_finished_semaphores.                                       *)
ImageAvailable(s) == 1 + s

RenderFinished(s) == 1 + MAX_FRAMES_IN_FLIGHT + s

(* A test after presentation that lets a suboptimal result pass. *)
NeedsRecreateAfterPresentStrict(result, resized) ==
    result = "OUT_OF_DATE" \/ resized

(* The condition end_frame tests after vkQueuePresentKHR. *)
NeedsRecreateAfterPresent(result, resized) ==
    result = "OUT_OF_DATE" \/ result = "SUBOPTIMAL" \/ resized

(* An end_frame that leaves the frame slot alone after a recreation. *)
end_frame_stalling(w, in) ==
    LET cur == w.vk.m_current_frame
    IN  IF in.endFault
        THEN Raise(w, "end_command_buffer")
        ELSE IF in.submit # "SUCCESS"
        THEN Raise([w EXCEPT !.vk.m_command_buffers[cur] = "executable",
                             !.submit = in.submit], "submit")
        ELSE LET w1 == [Logged(w, "submit") EXCEPT
                          !.vk.m_command_buffers[cur] = "pending",
                          !.gpu = Append(@, cur),
                          !.submit = in.submit,
                          !.signals = RenderFinished(cur)]
                 w2 == [Logged(w1, "present") EXCEPT
                          !.present = in.present,
                          !.resizeSeen = w.win.m_resized,
                          !.waits = w1.signals]
                 w3 == IF NeedsRecreateAfterPresent(in.present, w2.win.m_resized)
                       THEN recreate_swapchain(
                                Logged(Logged([w2 EXCEPT !.win.m_resized = FALSE],
                                              "reset_resized_flag"),
                                       "recreate_swapchain"), in.rc)
                       ELSE IF in.present # "SUCCESS"
                       THEN Raise(w2, "present")
                       ELSE w2
             IN  IF w3.raised # "" \/ w3.rcEntered THEN w3
                 ELSE [w3 EXCEPT !.vk.m_current_frame =
                                    (cur + 1) % MAX_FRAMES_IN_FLIGHT]

(* An end_frame that starts the recreation with the resize flag still set. *)
end_frame_flag_kept(w, in) ==
    LET cur == w.vk.m_current_frame
    IN  IF in.endFault
        THEN Raise(w, "end_command_buffer")
        ELSE IF in.submit # "SUCCESS"
        THEN Raise([w EXCEPT !.vk.m_command_buffers[cur] = "executable",
                             !.submit = in.submit], "submit")
        ELSE LET w1 == [Logged(w, "submit") EXCEPT
                          !.vk.m_command_buffers[cur] = "pending",
                          !.gpu = Append(@, cur),
                          !.submit = in.submit,
                          !.signals = RenderFinished(cur)]
                 w2 == [Logged(w1, "present") EXCEPT
                          !.present = in.present,
                          !.resizeSeen = w.win.m_resized,
                          !.waits = w1.signals]
                 w3 == IF NeedsRecreateAfterPresent(in.present, w2.win.m_resized)
                       THEN recreate_swapchain(
                                Logged(w2, "recreate_swapchain"), in.rc)
                       ELSE IF in.present # "SUCCESS"
                       THEN Raise(w2, "present")
                       ELSE w2
             IN  IF w3.raised # "" THEN w3
                 ELSE [w3 EXCEPT !.vk.m_current_frame =
                                    (cur + 1) % MAX_FRAMES_IN_FLIGHT]

(* An end_frame that returns without handing the command buffer to the     *)
(* queue.                                                                  *)
end_frame_unsubmitted(w, in) ==
    LET cur == w.vk.m_current_frame
    IN  IF in.endFault
        THEN Raise(w, "end_command_buffer")
        ELSE IF in.submit # "SUCCESS"
        THEN Raise([w EXCEPT !.vk.m_command_buffers[cur] = "executable",
                             !.submit = in.submit], "submit")
        ELSE LET w1 == [Logged(w, "submit") EXCEPT
                          !.vk.m_command_buffers[cur] = "pending",
                          !.submit = in.submit,
                          !.signals = RenderFinished(cur)]
                 w2 == [Logged(w1, "present") EXCEPT
                          !.present = in.present,
                          !.resizeSeen = w.win.m_resized,
                          !.waits = w1.signals]
                 w3 == IF NeedsRecreateAfterPresent(in.present, w2.win.m_resized)
                       THEN [w2 EXCEPT !.win.m_resized = FALSE]
                       ELSE IF in.present # "SUCCESS"
                       THEN Raise(w2, "present")
                       ELSE w2
             IN  IF w3.raised # "" THEN w3
                 ELSE [w3 EXCEPT !.vk.m_current_frame =
                                    (cur + 1) % MAX_FRAMES_IN_FLIGHT]

end_frame(w, in) ==
    LET cur == w.vk.m_current_frame
    IN  IF in.endFault
        THEN Raise(w, "end_command_buffer")
        ELSE IF in.submit # "SUCCESS"
        THEN Raise([w EXCEPT !.vk.m_command_buffers[cur] = "executable",
                             !.submit = in.submit], "submit")
        ELSE LET w1 == [Logged(w, "submit") EXCEPT
                          !.vk.m_command_buffers[cur] = "pending",
                          !.gpu = Append(@, cur),
                          !.submit = in.submit,
                          !.signals = RenderFinished(cur)]
                 w2 == [Logged(w1, "present") EXCEPT
                          !.present = in.present,
                          !.resizeSeen = w.win.m_resized,
                          !.waits = w1.signals]
                 w3 == IF NeedsRecreateAfterPresent(in.present, w2.win.m_resized)
                       THEN recreate_swapchain(
                                Logged(Logged([w2 EXCEPT !.win.m_resized = FALSE],
                                              "reset_resized_flag"),
                                       "recreate_swapchain"), in.rc)
                       ELSE IF in.present # "SUCCESS"
                       THEN Raise(w2, "present")
                       ELSE w2
             IN  IF w3.raised # "" THEN w3
                 ELSE [w3 EXCEPT !.vk.m_current_frame =
                                    (cur + 1) % MAX_FRAMES_IN_FLIGHT]

----------------------------------------------------------------------------
(* AccelerationStructureManager *)

(* Device calls of build_tlas and create_blas that can fail; the last one   *)
(* stands for the calls of begin_single_time_commands and                  *)
(* end_single_time_commands (allocate, begin, end, submit, wait).          *)
TlasFaults == {"none", "instance_buffer", "tlas_buffer", "create_tlas", "scratch_buffer",
               "single_time_commands"}

BlasFaults == {"none", "vertex_buffer", "blas_buffer", "create_blas", "scratch_buffer",
               "single_time_commands"}

(* The manager's world: its fields, the handles that are live on the       *)
(* device, and what the running call has done and thrown.                  *)
AccelWorld == [a |-> accel, log |-> <<>>, raised |-> "", failed |-> "", result |-> -1]

ALogged(w, e) == [w EXCEPT !.log = Append(@, e)]

(* A device call fails and the caller throws. *)
AThrow(w, what) == [w EXCEPT !.raised = what, !.failed = what]

(* begin_single_time_commands, the build command, end_single_time_commands: *)
(* no result of the device calls in the pair is looked at.                 *)
SingleTimeBuild(w, fault, what) ==
    IF fault = "single_time_commands"
    THEN [w EXCEPT !.failed = fault]
    ELSE ALogged(w, what)

(* Buffer::operator=(Buffer&&) on a TLAS or BLAS member with a newly       *)
(* constructed Buffer: destroy() releases the member's old allocation,     *)
(* then the member takes the new handle.                                   *)
AssignNewBuffer(w, old, what) ==
    LET w1 == IF old # NULL
              THEN [ALogged(w, "release_" \o what) EXCEPT !.a.bufs = @ \ {old}]
              ELSE w
    IN  [ALogged(w1, "create_" \o what) EXCEPT
            !.a.bufs = @ \cup {w.a.next},
            !.a.next = @ + 1]

(* A build that leaves the previous TLAS alone. *)
KeepPreviousTlas(w) == w

(* The start of a non-empty build: a TLAS that exists is destroyed after   *)
(* the device has gone idle, and the handle field is nulled.               *)
DestroyPreviousTlas(w) ==
    IF w.a.m_tlas.handle # NULL
    THEN [ALogged(ALogged(w, "wait_idle"), "destroy_tlas") EXCEPT
              !.a.live = @ \ {w.a.m_tlas.handle},
              !.a.m_tlas.handle = NULL]
    ELSE w

(* build_tlas past its empty-list check. *)
RebuildTlas(w, instances, fault) ==
    LET w1 == DestroyPreviousTlas(w)
    IN  IF fault = "instance_buffer" THEN AThrow(w1, fault)
        ELSE
    LET w2 == [AssignNewBuffer(w1, w1.a.m_tlas.instance_buffer, "instance_buffer")
                 EXCEPT !.a.m_tlas.instance_buffer = w1.a.next,
                        !.a.m_tlas.instance_count = Len(instances)]
    IN  IF fault = "tlas_buffer" THEN AThrow(w2, fault)
        ELSE
    LET w3 == [AssignNewBuffer(w2, w2.a.m_tlas.buffer, "tlas_buffer")
                 EXCEPT !.a.m_tlas.buffer = w2.a.next]
    IN  IF fault = "create_tlas" THEN AThrow(w3, fault)
        ELSE
    LET w4 == [ALogged(w3, "create_tlas") EXCEPT
                 !.a.m_tlas.handle = w3.a.next,
                 !.a.live = @ \cup {w3.a.next},
                 !.a.next = @ + 1]
    IN  IF fault = "scratch_buffer" THEN AThrow(w4, fault)
        ELSE SingleTimeBuild(w4, fault, "build_tlas")

(* A build_tlas without the empty-list check. *)
build_tlas_unguarded(w, instances, fault) == RebuildTlas(w, instances, fault)

(* build_tlas(instances); an instance is given by its blas_index. *)
build_tlas(w, instances, fault) ==
    IF instances = <<>>
    THEN w                      \* warns and returns
    ELSE RebuildTlas(w, instances, fault)

(* A create_blas that does not query the device address. *)
create_blas_unaddressed(w, fault) ==
    LET i  == Len(w.a.m_blas_list) + 1
        w0 == [w EXCEPT !.result = Len(w.a.m_blas_list),
                        !.a.m_blas_list =
                  Append(@, [handle |-> NULL, buffer |-> NULL, device_address |-> 0])]
    IN  IF fault = "vertex_buffer" \/ fault = "blas_buffer"
        THEN AThrow(w0, fault)
        ELSE
    LET w1 == [AssignNewBuffer(w0, NULL, "blas_buffer")
                 EXCEPT !.a.m_blas_list[i].buffer = w0.a.next]
    IN  IF fault = "create_blas" THEN AThrow(w1, fault)
        ELSE
    LET w2 == [ALogged(w1, "create_blas") EXCEPT
                 !.a.m_blas_list[i].handle = w1.a.next,
                 !.a.live = @ \cup {w1.a.next},
                 !.a.next = @ + 1]
    IN  IF fault = "scratch_buffer" THEN AThrow(w2, fault)
        ELSE SingleTimeBuild(w2, fault, "build_blas")

(* create_blas(vertices, indices): the index is the size of the list       *)
(* before emplace_back; create_blas_internal then fills the new element.   *)
create_blas(w, fault) ==
    LET i  == Len(w.a.m_blas_list) + 1
        w0 == [w EXCEPT !.result = Len(w.a.m_blas_list),
                        !.a.m_blas_list =
                  Append(@, [handle |-> NULL, buffer |-> NULL, device_address |-> 0])]
    IN  IF fault = "vertex_buffer" \/ fault = "blas_buffer"
        THEN AThrow(w0, fault)
        ELSE
    LET w1 == [AssignNewBuffer(w0, NULL, "blas_buffer")
                 EXCEPT !.a.m_blas_list[i].buffer = w0.a.next]
    IN  IF fault = "create_blas" THEN AThrow(w1, fault)
        ELSE
    LET w2 == [ALogged(w1, "create_blas") EXCEPT
                 !.a.m_blas_list[i].handle = w1.a.next,
                 !.a.live = @ \cup {w1.a.next},
                 !.a.next = @ + 1]
    IN  IF fault = "scratch_buffer" THEN AThrow(w2, fault)
        ELSE [SingleTimeBuild(w2, fault, "build_blas") EXCEPT
                 !.a.m_blas_list[i].device_address = w2.a.m_blas_list[i].handle]

(* What a call of the manager leaves behind for the properties to read. *)
AccelCall(name, n, pre, r) ==
    [name |-> name, n |-> n, raised |-> r.raised, failed |-> r.failed,
     log |-> r.log, pre |-> pre, result |-> r.result]

----------------------------------------------------------------------------
(* RTPipeline *)

(* The pipeline's world: the context and the GPU queue, the pipeline's     *)
(* fields (p), what the running call has done and thrown, whether it has   *)
(* destroyed a resource of the descriptor set while a submission was in    *)
(* flight (hazard), the bytes it returns, and the layout the output image  *)
(* was in when a capture recorded its first transition.                    *)
PWorld == [vk |-> vk, win |-> win, gpu |-> gpu, p |-> rt,
           log |-> <<>>, raised |-> "", hazard |-> FALSE,
           result |-> "none", captureFrom |-> "none"]

(* Device calls of the pipeline's functions that can fail. *)
ImageFaults == {"none", "create_image", "create_image_view"}

BufferFaults == {"none", "create_buffer", "map_memory"}

CaptureFaults == {"none", "create_buffer", "map_memory"}

(* A binding that referred to a resource refers to a destroyed one once    *)
(* the resource is destroyed, until the binding is written again.          *)
AfterDestroy(binding) == IF binding = "current" THEN "destroyed" ELSE binding

(* create_instance_buffer(); create_light_buffer() *)
create_buffers(p) ==
    [p EXCEPT !.m_instance_buffer =
                  [handle |-> 1, size |-> InitialInstanceCapacity * GlyphInstanceSize],
              !.m_light_buffer =
                  [handle |-> 1, size |-> InitialLightCapacity * LightSize]]

(* create_descriptor_sets(), the last step of the constructor: binding 0   *)
(* takes whatever the manager's tlas_handle() returns at that moment,      *)
(* bindings 2 and 3 the two buffers; binding 1 is not written.             *)
create_descriptor_sets(p, a) ==
    [p EXCEPT !.created = TRUE,
              !.binding0 = a.m_tlas.handle,
              !.initialWrite = a.m_tlas.handle,
              !.initialLive = a.m_tlas.handle \in a.live,
              !.binding2 = "current",
              !.binding3 = "current"]

(* An update that writes nothing. *)
update_tlas_descriptor_skipped(p, a) == p

update_tlas_descriptor(p, a) ==
    [p EXCEPT !.binding0 = a.m_tlas.handle]

(* The early return of resize_storage_image. *)
SameDimensions(p, width, height) ==
    width = p.m_storage_extent[1] /\ height = p.m_storage_extent[2]

(* resize_storage_image past its early return: wait for the device,        *)
(* destroy the view and the image that exist, create the image and its     *)
(* view, store the dimensions, write binding 1.                            *)
ReplaceStorageImage(w, width, height, fault) ==
    LET w1 == wait_idle(w)
        w2 == IF w1.p.m_storage_image_view # NULL
              THEN [Logged(w1, "destroy_image_view") EXCEPT
                       !.p.m_storage_image_view = NULL,
                       !.p.binding1 = AfterDestroy(@),
                       !.hazard = @ \/ w1.gpu # <<>>]
              ELSE w1
        w3 == IF w2.p.m_storage_image # NULL
              THEN [Logged(w2, "destroy_image") EXCEPT
                       !.p.m_storage_image = NULL,
                       !.p.image_extent = <<0, 0>>,
                       !.p.layout = "none",
                       !.hazard = @ \/ w2.gpu # <<>>]
              ELSE w2
    IN  IF fault = "create_image" THEN Raise(w3, fault)
        ELSE
    LET w4 == [Logged(w3, "create_image") EXCEPT
                 !.p.m_storage_image = 1,
                 !.p.image_extent = <<width, height>>,
                 !.p.layout = "UNDEFINED"]
    IN  IF fault = "create_image_view" THEN Raise(w4, fault)
        ELSE
    LET w5 == [Logged(w4, "create_image_view") EXCEPT !.p.m_storage_image_view = 1]
    IN  [Logged(w5, "write_binding1") EXCEPT
            !.p.m_storage_extent = <<width, height>>,
            !.p.binding1 = "current"]

(* resize_storage_image without its early return. *)
resize_storage_image_always(w, width, height, fault) ==
    ReplaceStorageImage(w, width, height, fault)

resize_storage_image(w, width, height, fault) ==
    IF SameDimensions(w.p, width, height)
    THEN w
    ELSE ReplaceStorageImage(w, width, height, fault)

(* A growth to exactly the bytes required. *)
UploadRecordsExactFit(w, buf, cnt, bind, recSize, n, fault) ==
    LET required == n * recSize
        w1 == IF required > w.p[buf].size
              THEN IF fault = "create_buffer"
                   THEN Raise(w, fault)
                   ELSE [Logged(Logged(Logged(w, "create_buffer"),
                                       "destroy_buffer"), "write_" \o bind)
                         EXCEPT !.p[buf] = [handle |-> 1, size |-> required],
                                !.p[bind] = "current",
                                !.hazard = @ \/ w.gpu # <<>>]
              ELSE w
    IN  IF w1.raised # "" THEN w1
        ELSE IF fault = "map_memory" THEN Raise(w1, fault)
        ELSE [Logged(w1, "upload") EXCEPT !.p[cnt] = n]

(* The body of set_instances and set_lights past the empty check, on the   *)
(* buffer member buf, the count member cnt and the descriptor binding      *)
(* bind, for n records of recSize bytes.                                   *)
UploadRecords(w, buf, cnt, bind, recSize, n, fault) ==
    LET required == n * recSize
        w1 == IF required > w.p[buf].size
              THEN IF fault = "create_buffer"
                   THEN Raise(w, fault)
                   ELSE [Logged(Logged(Logged(w, "create_buffer"),
                                       "destroy_buffer"), "write_" \o bind)
                         EXCEPT !.p[buf] = [handle |-> 1, size |-> required * 2],
                                !.p[bind] = "current",
                                !.hazard = @ \/ w.gpu # <<>>]
              ELSE w
    IN  IF w1.raised # "" THEN w1
        ELSE IF fault = "map_memory" THEN Raise(w1, fault)
        ELSE [Logged(w1, "upload") EXCEPT !.p[cnt] = n]

(* set_instances without its empty check. *)
set_instances_unguarded(w, n, fault) ==
    UploadRecords(w, "m_instance_buffer", "m_instance_count", "binding2",
                  GlyphInstanceSize, n, fault)

set_instances(w, n, fault) ==
    IF n = 0 THEN w
    ELSE UploadRecords(w, "m_instance_buffer", "m_instance_count", "binding2",
                       GlyphInstanceSize, n, fault)

(* A set_lights that returns without uploading. *)
set_lights_dropped(w, n, fault) == w

set_lights(w, n, fault) ==
    IF n = 0 THEN w
    ELSE UploadRecords(w, "m_light_buffer", "m_light_count", "binding3",
                       LightSize, n, fault)

(* What a dispatch is recorded with. *)
DispatchOf(p, a, width, height) ==
    [recorded |-> TRUE,
     binding0 |-> p.binding0,
     tlas |-> a.m_tlas.handle,
     live |-> p.binding0 \in a.live,
     dims |-> <<width, height>>,
     image |-> p.m_storage_image,
     image_extent |-> p.image_extent,
     binding1 |-> p.binding1]

(* trace_rays that records its commands without resizing. *)
trace_rays_unsized(w, width, height, fault) ==
    Logged(w, "cmd_trace_rays")

(* A trace_rays that runs a one-shot command for the image it resized. *)
trace_rays_one_shot(w, width, height, fault) ==
    LET w1 == resize_storage_image(w, width, height, fault)
    IN  IF w1.raised # "" THEN w1
        ELSE Logged(Logged(w1, "single_time_commands"), "cmd_trace_rays")

(* trace_rays(cmd, width, height, camera): resize_storage_image, then the  *)
(* bind, push-constant and trace commands.                                 *)
trace_rays(w, width, height, fault) ==
    LET w1 == resize_storage_image(w, width, height, fault)
    IN  IF w1.raised # "" THEN w1 ELSE Logged(w1, "cmd_trace_rays")

(* capture_screenshot without its check for an image. *)
capture_screenshot_unguarded(w, fault) ==
    LET w1 == wait_idle(w)
    IN  IF fault = "create_buffer" THEN Raise(w1, fault)
        ELSE
    LET w2 == [Logged(Logged(w1, "create_buffer"), "single_time_commands") EXCEPT
                 !.captureFrom = w1.p.layout,
                 !.p.layout = "GENERAL"]
    IN  IF fault = "map_memory"
        THEN Raise(Logged(w2, "destroy_buffer"), fault)
        ELSE [Logged(w2, "destroy_buffer") EXCEPT !.result = "pixels"]

(* capture_screenshot(): the first barrier names GENERAL as the old        *)
(* layout; the image ends in the layout the second barrier names.          *)
capture_screenshot(w, fault) ==
    IF \/ w.p.m_storage_image = NULL
       \/ w.p.m_storage_extent[1] = 0
       \/ w.p.m_storage_extent[2] = 0
    THEN [w EXCEPT !.result = "empty"]
    ELSE
    LET w1 == wait_idle(w)
    IN  IF fault = "create_buffer" THEN Raise(w1, fault)
        ELSE
    LET w2 == [Logged(Logged(w1, "create_buffer"), "single_time_commands") EXCEPT
                 !.captureFrom = w1.p.layout,
                 !.p.layout = "GENERAL"]
    IN  IF fault = "map_memory"
        THEN Raise(Logged(w2, "destroy_buffer"), fault)
        ELSE [Logged(w2, "destroy_buffer") EXCEPT !.result = "pixels"]

(* What a call of the pipeline leaves behind for the properties to read;   *)
(* seq alternates from one call to the next.                               *)
PipelineCall(name, args, n, r) ==
    [name |-> name, args |-> args, n |-> n, raised |-> r.raised, log |-> r.log,
     hazard |-> r.hazard, result |-> r.result, captureFrom |-> r.captureFrom,
     busy |-> gpu # <<>>, seq |-> 1 - pcall.seq]

----------------------------------------------------------------------------
(* Buffer (buffer.cpp): a move-only owner of one device allocation.        *)
(* m_buffer stands for the pair m_buffer, m_allocation, which the code     *)
(* always sets together.                                                   *)

(* A slot that holds no object. *)
NoObject == [alive |-> FALSE, m_ctx |-> FALSE, m_buffer |-> NULL, m_mapped |-> FALSE]

(* Buffer() = default, and the state a move leaves its source in. *)
EmptyBuffer == [alive |-> TRUE, m_ctx |-> FALSE, m_buffer |-> NULL, m_mapped |-> FALSE]

BufferSlots == 1 .. MaxBufferObjects

Allocations == 1 .. MaxAllocations

NoBuffers ==
    [objs |-> [i \in BufferSlots |-> NoObject],
     next |-> 1,
     destroyed |-> [h \in Allocations |-> 0],
     maps |-> [h \in Allocations |-> 0],
     op |-> "none", dst |-> 0, src |-> 0, had |-> NULL, took |-> NULL,
     mapped |-> FALSE, raised |-> "", log |-> <<>>]

(* What a call leaves behind for the properties to read: the operation,    *)
(* the objects it acted on, the handle dst held, whether dst was mapped    *)
(* and the handle src held when it was called. maps counts, for each       *)
(* allocation, the allocator's vmaMapMemory calls less its vmaUnmapMemory  *)
(* calls.                                                                  *)
BufferCall(b, op, dst, src) ==
    [b EXCEPT !.op = op, !.dst = dst, !.src = src,
              !.had = b.objs[dst].m_buffer,
              !.took = IF src = 0 THEN NULL ELSE b.objs[src].m_buffer,
              !.mapped = b.objs[dst].m_mapped,
              !.raised = "", !.log = <<>>]

(* Buffer::unmap() *)
Buffer_unmap(b, i) ==
    IF b.objs[i].m_mapped
    THEN [Logged(b, <<"vmaUnmapMemory", b.objs[i].m_buffer>>) EXCEPT
             !.maps[b.objs[i].m_buffer] = @ - 1,
             !.objs[i].m_mapped = FALSE]
    ELSE b

(* A destroy() that releases the allocation without unmapping it. *)
Buffer_destroy_mapped(b, i) ==
    IF b.objs[i].m_buffer # NULL /\ b.objs[i].m_ctx
    THEN LET h == b.objs[i].m_buffer
         IN  [Logged(b, <<"vmaDestroyBuffer", h>>) EXCEPT
                 !.destroyed[h] = @ + 1,
                 !.objs[i].m_buffer = NULL,
                 !.objs[i].m_mapped = FALSE]
    ELSE b

(* Buffer::destroy() *)
Buffer_destroy(b, i) ==
    IF b.objs[i].m_buffer # NULL /\ b.objs[i].m_ctx
    THEN LET b1 == Buffer_unmap(b, i)
             h == b.objs[i].m_buffer
         IN  [Logged(b1, <<"vmaDestroyBuffer", h>>) EXCEPT
                 !.destroyed[h] = @ + 1,
                 !.objs[i].m_buffer = NULL]
    ELSE b

(* Buffer::Buffer(ctx, size, usage, ...): a failed vmaCreateBuffer throws  *)
(* and no object comes to exist.                                           *)
Buffer_construct(b, i, fault) ==
    IF fault = "create_buffer"
    THEN Raise(b, fault)
    ELSE [Logged(b, <<"vmaCreateBuffer", b.next>>) EXCEPT
             !.objs[i] = [alive |-> TRUE, m_ctx |-> TRUE, m_buffer |-> b.next,
                          m_mapped |-> FALSE],
             !.next = @ + 1]

(* Buffer::~Buffer() *)
Buffer_destruct(b, i) ==
    [Buffer_destroy(b, i) EXCEPT !.objs[i] = NoObject]

(* Buffer::Buffer(Buffer&& other) *)
Buffer_move_construct(b, i, other) ==
    [b EXCEPT !.objs[i] = b.objs[other],
              !.objs[other] = EmptyBuffer]

(* A move-assignment that takes over the source without destroy(). *)
Buffer_move_assign_leaking(b, i, other) ==
    IF i # other
    THEN [b EXCEPT !.objs[i] = b.objs[other],
                   !.objs[other] = EmptyBuffer]
    ELSE b

(* Buffer::operator=(Buffer&& other) *)
Buffer_move_assign(b, i, other) ==
    IF i # other
    THEN LET b1 == Buffer_destroy(b, i)
         IN  [b1 EXCEPT !.objs[i] = b1.objs[other],
                        !.objs[other] = EmptyBuffer]
    ELSE b

(* Buffer::map() *)
Buffer_map(b, i, fault) ==
    IF ~b.objs[i].m_mapped
    THEN IF fault = "map_memory"
         THEN Raise(b, fault)
         ELSE [Logged(b, <<"vmaMapMemory", b.objs[i].m_buffer>>) EXCEPT
                  !.maps[b.objs[i].m_buffer] = @ + 1,
                  !.objs[i].m_mapped = TRUE]
    ELSE b

(* Buffer::upload(data, size, offset): map(), memcpy, unmap(). *)
Buffer_upload(b, i, fault) ==
    LET b1 == Buffer_map(b, i, fault)
    IN  IF b1.raised # "" THEN b1
        ELSE Buffer_unmap(Logged(b1, <<"memcpy", b1.objs[i].m_buffer>>), i)

----------------------------------------------------------------------------
(* The camera pose: locals of main() that the frame loop updates every     *)
(* iteration and the camera.set handler, run by the control channel's      *)
(* thread, writes. Neither side takes a lock or uses an atomic, so each    *)
(* load and each store of a field is a step of its own.                    *)

PoseFields == {"camera_pos", "camera_yaw", "camera_pitch"}

PoseValues == -MaxPose .. MaxPose

(* glm::clamp(camera_pitch, -1.5f, 1.5f), in units of 1.5. *)
ClampPitch(v) ==
    IF v < -PitchLimit THEN -PitchLimit
    ELSE IF v > PitchLimit THEN PitchLimit ELSE v

(* The compound assignment whose store is at a position of the loop,      *)
(* applied to the value v with the iteration's input d (the mouse delta,   *)
(* the key held): camera_yaw -= dx, camera_pitch -= dy, the clamp of the   *)
(* pitch, camera_pos += forward * speed * dt.                              *)
StoreOf(at, v, d) ==
    IF at = "yaw_store" THEN v - d
    ELSE IF at = "pitch_store" THEN v - d
    ELSE IF at = "clamp_store" THEN ClampPitch(v)
    ELSE v + d

(* The frame loop's positions from poll_events to the camera matrices, and *)
(* the field each load and store is of.                                    *)
LoopOrder ==
    <<"poll", "yaw_load", "yaw_store", "pitch_load", "pitch_store",
      "clamp_load", "clamp_store", "forward", "pos_load", "pos_store", "view">>

LoopAfter(at) ==
    LET i == CHOOSE k \in 1 .. Len(LoopOrder) : LoopOrder[k] = at
    IN  LoopOrder[(i % Len(LoopOrder)) + 1]

LoopField(at) ==
    IF at \in {"yaw_load", "yaw_store"} THEN "camera_yaw"
    ELSE IF at \in {"pos_load", "pos_store"} THEN "camera_pos"
    ELSE "camera_pitch"

(* The handler's positions: the three optional writes in their order. *)
HandlerOrder == <<"camera_pos", "camera_yaw", "camera_pitch">>

(* The camera when the loop is entered. pose holds the shared fields, reg  *)
(* the value the loop has loaded, d the iteration's input, used what the   *)
(* iteration's matrices were built from; params and hpc are the running    *)
(* camera.set. fresh[f] follows the value a camera.set wrote to f since    *)
(* the iteration started, owed[f] the value a camera.set wrote to f before *)
(* the iteration started and no camera.set has overwritten since; both     *)
(* take the loop's own assignments to f as they are stored. camera_pos is  *)
(* counted from where main() puts the camera.                              *)
NoCamera ==
    [pose |-> [f \in PoseFields |-> 0],
     lpc |-> "poll", reg |-> 0, d |-> 0,
     used |-> [f \in PoseFields |-> {}],
     hpc |-> 0, params |-> [f \in PoseFields |-> {}],
     fresh |-> [f \in PoseFields |-> {}],
     owed |-> [f \in PoseFields |-> {}]]

(* main.cpp 879-888: poll_events and mouse_delta start an iteration. *)
LoopPollCamera(c, d) ==
    [c EXCEPT !.lpc = LoopAfter("poll"), !.d = d,
              !.used = [f \in PoseFields |-> {}],
              !.owed = c.fresh,
              !.fresh = [f \in PoseFields |-> {}]]

(* The load of a compound assignment; the position is assigned only      *)
(* while a key is held.                                                    *)
LoopLoad(c) ==
    IF c.lpc = "pos_load" /\ c.d = 0
    THEN [c EXCEPT !.lpc = "view"]
    ELSE [c EXCEPT !.reg = c.pose[LoopField(c.lpc)], !.lpc = LoopAfter(c.lpc)]

(* The store of a compound assignment: the assignment applied to the       *)
(* value that was loaded.                                                  *)
LoopStore(c) ==
    LET f == LoopField(c.lpc)
    IN  [c EXCEPT !.pose[f] = StoreOf(c.lpc, c.reg, c.d),
                  !.fresh[f] = {StoreOf(c.lpc, v, c.d) : v \in @},
                  !.owed[f] = {StoreOf(c.lpc, v, c.d) : v \in @},
                  !.lpc = LoopAfter(c.lpc)]

(* main.cpp 897-901: forward is computed from the yaw and the pitch. *)
LoopForward(c) ==
    [c EXCEPT !.used["camera_yaw"] = {c.pose["camera_yaw"]},
              !.used["camera_pitch"] = {c.pose["camera_pitch"]},
              !.lpc = LoopAfter(c.lpc)]

(* main.cpp 926-942: the view matrix and the push constants read the       *)
(* position.                                                               *)
LoopView(c) ==
    [c EXCEPT !.used["camera_pos"] = {c.pose["camera_pos"]},
              !.lpc = LoopAfter(c.lpc)]

(* camera.set is called with params. *)
CameraSetBegin(c, params) == [c EXCEPT !.hpc = 1, !.params = params]

(* One of the handler's three steps: the write of the field if params      *)
(* contains it.                                                            *)
CameraSetStep(c) ==
    LET f == HandlerOrder[c.hpc]
        c1 == IF c.params[f] # {}
              THEN [c EXCEPT !.pose[f] = CHOOSE v \in c.params[f] : TRUE,
                             !.fresh[f] = c.params[f],
                             !.owed[f] = {}]
              ELSE c
    IN  IF c.hpc = Len(HandlerOrder)
        THEN [c1 EXCEPT !.hpc = 0, !.params = [g \in PoseFields |-> {}]]
        ELSE [c1 EXCEPT !.hpc = @ + 1]

----------------------------------------------------------------------------
(* RTPipeline::create_shader_binding_table: the layout of the table for    *)
(* the device's handle size, handle alignment and base alignment.          *)

(* (x + a - 1) & ~(a - 1) on a power of two a: x + a - 1 with the bits     *)
(* below a cleared.                                                        *)
AlignMask(x, a) == (x + a - 1) - ((x + a - 1) % a)

(* ((x + b - 1) / b) * b *)
AlignDiv(x, b) == ((x + b - 1) \div b) * b

(* No table yet. *)
NoSbt ==
    [created |-> FALSE, handle_size |-> 0, handle_alignment |-> 0,
     base_alignment |-> 0, handle_size_aligned |-> 0, total_size |-> 0,
     copies |-> <<>>,
     m_raygen_region |-> [offset |-> 0, stride |-> 0, size |-> 0],
     m_miss_region |-> [offset |-> 0, stride |-> 0, size |-> 0],
     m_hit_region |-> [offset |-> 0, stride |-> 0, size |-> 0]]

(* The sizes, the five memcpy calls (group, offset in the buffer, bytes)   *)
(* and the three regions (offset from the buffer's address).               *)
create_shader_binding_table(handle_size, handle_alignment, base_alignment) ==
    LET handle_size_aligned == AlignMask(handle_size, handle_alignment)
        raygen_size == base_alignment
        miss_size == 3 * handle_size_aligned
        miss_region_aligned == AlignDiv(miss_size, base_alignment)
        hit_size == base_alignment
        total_size == raygen_size + miss_region_aligned + hit_size
    IN  [created |-> TRUE,
         handle_size |-> handle_size,
         handle_alignment |-> handle_alignment,
         base_alignment |-> base_alignment,
         handle_size_aligned |-> handle_size_aligned,
         total_size |-> total_size,
         copies |->
             <<[group |-> 0, offset |-> 0, size |-> handle_size],
               [group |-> 1, offset |-> raygen_size, size |-> handle_size],
               [group |-> 2, offset |-> raygen_size + handle_size_aligned,
                size |-> handle_size],
               [group |-> 3, offset |-> raygen_size + 2 * handle_size_aligned,
                size |-> handle_size],
               [group |-> 4, offset |-> raygen_size + miss_region_aligned,
                size |-> handle_size]>>,
         m_raygen_region |->
             [offset |-> 0, stride |-> raygen_size, size |-> raygen_size],
         m_miss_region |->
             [offset |-> raygen_size, stride |-> handle_size_aligned,
              size |-> miss_region_aligned],
         m_hit_region |->
             [offset |-> raygen_size + miss_region_aligned,
              stride |-> handle_size_aligned, size |-> hit_size]]

----------------------------------------------------------------------------
(* main(): the light array, build_dungeon_scene's lights, and the stats.get *)
(* and scene.get handlers that report it.  A light is its color.a, the     *)
(* power, in tenths.                                                       *)

(* size_t n - 1: wraps to the largest value when n is 0 (SIZE_MAX stands   *)
(* for 2^64 - 1).                                                          *)
SizeMinusOne(n) == IF n > 0 THEN n - 1 ELSE SIZE_MAX

(* std::vector<ascii::Light> lights, empty; no handler registered;        *)
(* uploaded is the list the last completed set_lights copied to the        *)
(* pipeline's light buffer.                                                *)
NoLights ==
    [lights |-> <<>>, at |-> "declared", handlers |-> {}, running |-> FALSE,
     reports |-> <<>>, uploaded |-> <<>>]

(* What a report says (light_count) and, for the record, the array it was  *)
(* taken from: its length and its last record's power (-1 if empty).       *)
LightReport(by, count, lights) ==
    [by |-> by, light_count |-> count, size |-> Len(lights),
     last_power |-> IF Len(lights) = 0 THEN -1 ELSE lights[Len(lights)]]

(* The minimal scene: one light of power 5 and the terminator. *)
MinimalSceneLights(l) ==
    [l EXCEPT !.lights = Append(Append(@, 50), 0), !.at = "minimal"]

(* build_dungeon_scene without its terminator light. *)
build_dungeon_scene_unterminated(l) ==
    LET lights == <<80, 50, 50, 50, 50, 60, 60, 60, 15>>
    IN  [l EXCEPT !.lights = lights,
                  !.at = "built",
                  !.reports = Append(@, LightReport("log",
                                  SizeMinusOne(Len(lights)), lights))]

(* build_dungeon_scene: clears the array, pushes the main torch, the four  *)
(* corner torches, the three accent lights, the fill light and the         *)
(* terminator, and logs the number of lights.                              *)
build_dungeon_scene(l) ==
    LET lights == <<80, 50, 50, 50, 50, 60, 60, 60, 15, 0>>
    IN  [l EXCEPT !.lights = lights,
                  !.at = "built",
                  !.reports = Append(@, LightReport("log",
                                  SizeMinusOne(Len(lights)), lights))]

(* opts.ipc_port > 0: the handlers are registered and the server started;  *)
(* a server that fails to start is reset.                                  *)
RegisterHandlers(l, ipc_port, started) ==
    IF ipc_port > 0 /\ started
    THEN [l EXCEPT !.handlers = {"stats.get", "scene.get"},
                   !.running = TRUE, !.at = "loop"]
    ELSE [l EXCEPT !.at = "loop"]

(* stats.get: light_count is lights.size() - 1. *)
stats_get(l) ==
    [l EXCEPT !.reports = Append(@, LightReport("stats.get",
                              SizeMinusOne(Len(l.lights)), l.lights))]

(* scene.get: light_array has one entry per i < lights.size() - 1. *)
scene_get(l) ==
    LET light_array ==
            [i \in 1 .. SizeMinusOne(Len(l.lights)) |-> l.lights[i]]
    IN  [l EXCEPT !.reports = Append(@, LightReport("scene.get",
                                  Len(light_array), l.lights))]

(* ipc_server->stop() after the loop. *)
StopServer(l) == [l EXCEPT !.running = FALSE, !.at = "stopped"]

----------------------------------------------------------------------------
(* The end of main()'s scope: ~RTPipeline, then                            *)
(* ~AccelerationStructureManager, then ~VulkanContext, each followed by    *)
(* the destructors of its Buffer members.                                  *)

(* Nothing destroyed yet. busy: an object was destroyed while a submission *)
(* was in the queue; orphaned: one was destroyed after the device or the   *)
(* allocator.                                                              *)
NoTeardown ==
    [stage |-> "live", log |-> <<>>, busy |-> FALSE, orphaned |-> FALSE,
     sync |-> TRUE, command_pool |-> TRUE, allocator |-> TRUE, device |-> TRUE]

TWorld == [vk |-> vk, win |-> win, gpu |-> gpu, a |-> accel, p |-> rt,
           t |-> td, log |-> td.log]

(* A vkDestroy... or vmaDestroy... call on an object of the device. *)
Destroyed(w, e) ==
    [Logged(w, e) EXCEPT
        !.t.busy = @ \/ w.gpu # <<>>,
        !.t.orphaned = @ \/ ~w.t.device \/ ~w.t.allocator]

(* A Buffer member's destructor. *)
ReleaseMember(w, handle, what) ==
    IF handle # NULL THEN Destroyed(w, "release_" \o what) ELSE w

(* ~RTPipeline(), then m_light_buffer, m_instance_buffer and m_sbt_buffer.  *)
RTPipeline_destructor(w) ==
    LET w1 == wait_idle(Logged(w, "~RTPipeline"))
        w2 == IF w1.p.m_storage_image_view # NULL
              THEN [Destroyed(w1, "destroy_image_view") EXCEPT
                       !.p.m_storage_image_view = NULL]
              ELSE w1
        w3 == IF w2.p.m_storage_image # NULL
              THEN [Destroyed(w2, "destroy_image") EXCEPT
                       !.p.m_storage_image = NULL]
              ELSE w2
        w4 == Destroyed(w3, "destroy_pipeline_objects")
        w5 == [ReleaseMember(w4, w4.p.m_light_buffer.handle, "light_buffer")
                 EXCEPT !.p.m_light_buffer.handle = NULL]
        w6 == [ReleaseMember(w5, w5.p.m_instance_buffer.handle, "instance_ssbo")
                 EXCEPT !.p.m_instance_buffer.handle = NULL]
        w7 == Destroyed(w6, "release_sbt_buffer")
    IN  [w7 EXCEPT !.p.created = FALSE]

(* The BLAS of the list that have a handle, and those that have a buffer. *)
WithHandle(list) == SelectSeq(list, LAMBDA b : b.handle # NULL)

WithBuffer(list) == SelectSeq(list, LAMBDA b : b.buffer # NULL)

(* k calls of one kind. *)
DestroyedTimes(w, k, e) ==
    IF k = 0 THEN w
    ELSE [w EXCEPT !.log = @ \o [j \in 1 .. k |-> e],
                   !.t.busy = @ \/ w.gpu # <<>>,
                   !.t.orphaned = @ \/ ~w.t.device \/ ~w.t.allocator]

(* A destructor that lets the members go before it destroys the handles. *)
Accel_destructor_buffers_first(w) ==
    LET w1 == wait_idle(Logged(w, "~AccelerationStructureManager"))
        w4 == [ReleaseMember(w1, w1.a.m_tlas.instance_buffer, "instance_buffer")
                 EXCEPT !.a.bufs = @ \ {w1.a.m_tlas.instance_buffer},
                        !.a.m_tlas.instance_buffer = NULL]
        w5 == [ReleaseMember(w4, w4.a.m_tlas.buffer, "tlas_buffer")
                 EXCEPT !.a.bufs = @ \ {w4.a.m_tlas.buffer},
                        !.a.m_tlas.buffer = NULL]
        w6 == [DestroyedTimes(w5, Len(WithBuffer(w5.a.m_blas_list)), "release_blas_buffer")
                 EXCEPT !.a.bufs = @ \ {w5.a.m_blas_list[i].buffer :
                                           i \in 1 .. Len(w5.a.m_blas_list)}]
        w7 == IF w6.a.m_tlas.handle # NULL
              THEN [Destroyed(w6, "destroy_tlas") EXCEPT
                       !.a.live = @ \ {w6.a.m_tlas.handle}]
              ELSE w6
    IN  [DestroyedTimes(w7, Len(WithHandle(w7.a.m_blas_list)), "destroy_blas")
            EXCEPT !.a.live = @ \ {w7.a.m_blas_list[i].handle :
                                      i \in 1 .. Len(w7.a.m_blas_list)},
                   !.a.m_blas_list = <<>>]

(* ~AccelerationStructureManager(): the TLAS handle and every BLAS handle; *)
(* then m_tlas (instance_buffer, buffer) and the BLAS of m_blas_list.      *)
Accel_destructor(w) ==
    LET w1 == wait_idle(Logged(w, "~AccelerationStructureManager"))
        w2 == IF w1.a.m_tlas.handle # NULL
              THEN [Destroyed(w1, "destroy_tlas") EXCEPT
                       !.a.live = @ \ {w1.a.m_tlas.handle}]
              ELSE w1
        w3 == [DestroyedTimes(w2, Len(WithHandle(w2.a.m_blas_list)), "destroy_blas")
                 EXCEPT !.a.live = @ \ {w2.a.m_blas_list[i].handle :
                                           i \in 1 .. Len(w2.a.m_blas_list)}]
        w4 == [ReleaseMember(w3, w3.a.m_tlas.instance_buffer, "instance_buffer")
                 EXCEPT !.a.bufs = @ \ {w3.a.m_tlas.instance_buffer},
                        !.a.m_tlas.instance_buffer = NULL]
        w5 == [ReleaseMember(w4, w4.a.m_tlas.buffer, "tlas_buffer")
                 EXCEPT !.a.bufs = @ \ {w4.a.m_tlas.buffer},
                        !.a.m_tlas.buffer = NULL]
    IN  [DestroyedTimes(w5, Len(WithBuffer(w5.a.m_blas_list)), "release_blas_buffer")
            EXCEPT !.a.bufs = @ \ {w5.a.m_blas_list[i].buffer :
                                      i \in 1 .. Len(w5.a.m_blas_list)},
                   !.a.m_blas_list = <<>>]

(* A ~VulkanContext() that does not wait for the device. *)
VulkanContext_destructor_unwaited(w) ==
    LET w2 == cleanup_swapchain(Logged(w, "~VulkanContext"))
        w3 == [Destroyed(w2, "destroy_sync_objects") EXCEPT !.t.sync = FALSE]
        w4 == [Destroyed(w3, "destroy_command_pool") EXCEPT !.t.command_pool = FALSE]
        w5 == [Logged(w4, "destroy_allocator") EXCEPT !.t.allocator = FALSE]
        w6 == [Logged(w5, "destroy_device") EXCEPT !.t.device = FALSE]
    IN  [Logged(w6, "destroy_surface") EXCEPT !.vk.m_surface = NULL]

(* ~VulkanContext() *)
VulkanContext_destructor(w) ==
    LET w1 == wait_idle(Logged(w, "~VulkanContext"))
        w2 == cleanup_swapchain(w1)
        w3 == [Destroyed(w2, "destroy_sync_objects") EXCEPT !.t.sync = FALSE]
        w4 == [Destroyed(w3, "destroy_command_pool") EXCEPT !.t.command_pool = FALSE]
        w5 == [Logged(w4, "destroy_allocator") EXCEPT !.t.allocator = FALSE]
        w6 == [Logged(w5, "destroy_device") EXCEPT !.t.device = FALSE]
    IN  [Logged(w6, "destroy_surface") EXCEPT !.vk.m_surface = NULL]

----------------------------------------------------------------------------
(* main(): the geometry instances and their shading records. An instance   *)
(* is its custom_index; glyph_data is the shading-record array's size.     *)

NoScene ==
    [instances |-> <<>>, glyph_data |-> 0, at |-> "declared",
     block |-> 1, pushed |-> 0, calls |-> <<>>]

(* inst.custom_index = glyph_data.size(); instances.push_back(inst);       *)
(* glyph_data.push_back(glyph)                                             *)
PushPair(s) ==
    [s EXCEPT !.instances = Append(@, s.glyph_data), !.glyph_data = @ + 1]

(* The blocks of build_dungeon_scene and the pairs each pushes: the floor  *)
(* tiles, the four walls, the pedestal and the brazier, three letters of   *)
(* four cubes, the four torches.                                           *)
SceneBlocks == <<room_size * room_size, 4 * room_size, 2, 3 * 4, 4>>

(* accel.build_tlas(instances) or pipeline.set_instances(glyph_data), with *)
(* the two arrays as they are at the call.                                 *)
SceneCall(s, name) ==
    [s EXCEPT !.calls = Append(@, [name |-> name, instances |-> s.instances,
                                   glyph_data |-> s.glyph_data])]

(* The minimal scene and its build_tlas. *)
MinimalSceneInstances(s) ==
    [SceneCall(PushPair(s), "build_tlas") EXCEPT !.at = "minimal"]

(* A start of build_dungeon_scene that leaves the shading records. *)
ClearScene_keeping_glyphs(s) ==
    [s EXCEPT !.instances = <<>>, !.at = "building", !.block = 1, !.pushed = 0]

(* instances.clear(); glyph_data.clear() *)
ClearScene(s) ==
    [s EXCEPT !.instances = <<>>, !.glyph_data = 0,
              !.at = "building", !.block = 1, !.pushed = 0]

(* The next pair of the block the function is in. *)
PushNext(s) ==
    LET s1 == [PushPair(s) EXCEPT !.pushed = @ + 1]
    IN  IF s1.pushed < SceneBlocks[s1.block] THEN s1
        ELSE IF s1.block < Len(SceneBlocks)
        THEN [s1 EXCEPT !.block = @ + 1, !.pushed = 0]
        ELSE [s1 EXCEPT !.at = "filled"]

(* accel.build_tlas(instances); pipeline.set_instances(glyph_data) *)
UploadScene(s) ==
    [SceneCall(SceneCall(s, "build_tlas"), "set_instances") EXCEPT !.at = "built"]

----------------------------------------------------------------------------
(* Per-slot semaphores (vulkan_context.cpp 582-601, 685-699, 719-748)      *)
(*                                                                         *)
(* create_sync_objects makes one image-available semaphore, one            *)
(* render-finished semaphore and one signaled fence per frame slot.        *)
(* create_swapchain asks for minImageCount + 1 images, so the swapchain    *)
(* may hold more images than there are slots.  The record follows frames   *)
(* whose acquisition and presentation succeed:                             *)
(*   submitted  slots whose submission the device has not completed        *)
(*   presents   presentation requests the presentation engine still holds, *)
(*              oldest first: the slot whose render-finished semaphore the *)
(*              request waits on, the image, whether the wait completed    *)
(*   images     per swapchain image: "free", "acquired" or "queued"        *)
(*   op, slot, pending_waits, unconsumed                                   *)
(*              the last semaphore use by the context: which call, on      *)
(*              which slot, how many earlier waits on that semaphore were  *)
(*              pending, and whether an earlier signal was unconsumed      *)

SwapImages(n) == 0 .. (n - 1)

NoSemaphores ==
    [count |-> 0,
     m_current_frame |-> 0,
     m_image_index |-> 0,
     at |-> "begin_frame",
     fences |-> [s \in Slots |-> TRUE],
     image_available |-> [s \in Slots |-> FALSE],
     render_finished |-> [s \in Slots |-> FALSE],
     images |-> <<>>,
     submitted |-> <<>>,
     presents |-> <<>>,
     op |-> "", slot |-> 0, pending_waits |-> 0, unconsumed |-> FALSE]

(* Presentation requests that wait on slot s's render-finished semaphore   *)
(* and have not completed that wait.                                       *)
PendingPresentWaits(q, s) ==
    Cardinality({k \in 1 .. Len(q.presents) :
                    q.presents[k].slot = s /\ ~q.presents[k].waited})

(* Submissions that wait on slot s's image-available semaphore and have    *)
(* not run.                                                                *)
PendingSubmitWaits(q, s) ==
    Cardinality({k \in 1 .. Len(q.submitted) : q.submitted[k] = s})

(* begin_frame, acquisition succeeding with image i: the fence of the      *)
(* slot has been waited for, the slot's image-available semaphore is       *)
(* handed to vkAcquireNextImageKHR, the fence is reset.                    *)
AcquireWithSemaphore(q, i) ==
    LET cur == q.m_current_frame IN
    [q EXCEPT !.op = "acquire", !.slot = cur,
              !.pending_waits = PendingSubmitWaits(q, cur),
              !.unconsumed = q.image_available[cur],
              !.image_available[cur] = TRUE,
              !.m_image_index = i,
              !.images[i + 1] = "acquired",
              !.fences[cur] = FALSE,
              !.at = "end_frame"]

(* end_frame, presentation succeeding: the submission waits on the slot's  *)
(* image-available semaphore and signals its render-finished semaphore and *)
(* fence; the presentation request waits on the render-finished semaphore; *)
(* the slot advances.                                                      *)
SubmitAndPresent(q) ==
    LET cur == q.m_current_frame IN
    [q EXCEPT !.op = "submit", !.slot = cur,
              !.pending_waits = PendingPresentWaits(q, cur),
              !.unconsumed = q.render_finished[cur],
              !.submitted = Append(@, cur),
              !.presents = Append(@, [slot |-> cur, image |-> q.m_image_index,
                                      waited |-> FALSE]),
              !.images[q.m_image_index + 1] = "queued",
              !.m_current_frame = (cur + 1) % MAX_FRAMES_IN_FLIGHT,
              !.at = "begin_frame"]

(* The device runs the oldest submission: its wait consumes the            *)
(* image-available signal, its end signals the render-finished semaphore   *)
(* and the fence.                                                          *)
CompleteSubmission(q) ==
    LET s == Head(q.submitted) IN
    [q EXCEPT !.submitted = Tail(@),
              !.image_available[s] = FALSE,
              !.render_finished[s] = TRUE,
              !.fences[s] = TRUE]

(* The oldest presentation request that has not waited yet. *)
NextToWait(q) ==
    LET ks == {k \in 1 .. Len(q.presents) : ~q.presents[k].waited}
    IN  IF ks = {} THEN 0 ELSE CHOOSE k \in ks : \A j \in ks : k <= j

(* The presentation engine completes the wait of its oldest waiting        *)
(* request, consuming the signal of the semaphore the request names.       *)
CompletePresentWait(q) ==
    LET k == NextToWait(q) IN
    [q EXCEPT !.presents[k].waited = TRUE,
              !.render_finished[q.presents[k].slot] = FALSE]

(* The presentation engine is done with its oldest request: the image can  *)
(* be acquired again.                                                      *)
ReleaseImage(q) ==
    [q EXCEPT !.images[Head(q.presents).image + 1] = "free",
              !.presents = Tail(@)]

----------------------------------------------------------------------------
(* The end-of-run screenshot (main.cpp 39-61, 1046-1054)                   *)

NoShot == [written |-> FALSE, width |-> 0, height |-> 0,
           image_width |-> 0, image_height |-> 0, bytes |-> 0]

(* The largest index save_screenshot_ppm reads of pixels: the blue byte of *)
(* the last pixel of the last row; -1 when the loops do not run.           *)
LastIndexRead(width, height) ==
    IF width = 0 \/ height = 0 THEN 0 - 1
    ELSE ((height - 1) * width + (width - 1)) * 4 + 2

(* save_screenshot_ppm(filename, pixels, width, height): returns before    *)
(* the walk when the file cannot be opened. image is the extent of the     *)
(* output image capture_screenshot copied, so pixels holds                 *)
(* image width * image height * 4 bytes.                                   *)
save_screenshot_ppm(s, opened, image, width, height) ==
    IF ~opened THEN s
    ELSE [written |-> TRUE, width |-> width, height |-> height,
          image_width |-> image[1], image_height |-> image[2],
          bytes |-> image[1] * image[2] * 4]

----------------------------------------------------------------------------
(* Initial states *)

NoCall ==
    [call |-> "none", acq |-> "none", submit |-> "none", present |-> "none",
     resizeSeen |-> FALSE, raised |-> "", early |-> FALSE,
     rcEntered |-> FALSE, rcPath |-> "none", polls |-> 0, query |-> "none",
     log |-> <<>>, resetPending |-> FALSE, signals |-> NULL, waits |-> NULL]

NoTick == [skipped |-> FALSE, recorded |-> FALSE, ended |-> FALSE,
           oneShot |-> FALSE]

NoTlas == [handle |-> NULL, buffer |-> NULL, instance_buffer |-> NULL,
           instance_count |-> 0]

NoAccel == [m_tlas |-> NoTlas, m_blas_list |-> <<>>, next |-> 1,
            live |-> {}, bufs |-> {}]

NoPipeline ==
    [created |-> FALSE, binding0 |-> NULL, initialWrite |-> NULL,
     initialLive |-> FALSE, m_storage_extent |-> <<0, 0>>,
     m_storage_image |-> NULL, m_storage_image_view |-> NULL,
     image_extent |-> <<0, 0>>, layout |-> "none", binding1 |-> "unwritten",
     m_instance_buffer |-> [handle |-> NULL, size |-> 0], m_instance_count |-> 0,
     binding2 |-> "unwritten",
     m_light_buffer |-> [handle |-> NULL, size |-> 0], m_light_count |-> 0,
     binding3 |-> "unwritten"]

NoPipelineCall ==
    [name |-> "none", args |-> <<0, 0>>, n |-> 0, raised |-> "", log |-> <<>>,
     hazard |-> FALSE, result |-> "none", captureFrom |-> "none",
     busy |-> FALSE, seq |-> 0]

NoTrace ==
    [recorded |-> FALSE, binding0 |-> NULL, tlas |-> NULL, live |-> FALSE,
     dims |-> <<0, 0>>, image |-> NULL, image_extent |-> <<0, 0>>,
     binding1 |-> "unwritten"]

NoAccelCall == [name |-> "none", n |-> 0, raised |-> "", failed |-> "",
                log |-> <<>>, pre |-> NoAccel,
                result |-> -1]

(* The state the constructors of Window, VulkanContext and                 *)
(* AccelerationStructureManager leave: a non-zero window, a surface, a     *)
(* swapchain of that size with one view per image, fences created          *)
(* signaled, no TLAS, no BLAS; the pipeline is not constructed yet.        *)
InitObjects ==
    /\ \E sz \in NonZeroSizes, n \in ImageCounts :
          /\ win = [m_width |-> sz[1], m_height |-> sz[2], m_resized |-> FALSE]
          /\ vk = [m_surface |-> 1, m_swapchain |-> 1,
                   m_swapchain_images |-> n, m_swapchain_image_views |-> n,
                   m_swapchain_extent |-> sz,
                   m_current_frame |-> 0, m_image_index |-> 0,
                   m_framebuffer_resized |-> FALSE,
                   m_in_flight_fences |-> [s \in Slots |-> TRUE],
                   m_command_buffers |-> [s \in Slots |-> "initial"]]
    /\ gpu = <<>>
    /\ accel = NoAccel
    /\ rt = NoPipeline
    /\ tick = NoTick
    /\ last = NoCall
    /\ acall = NoAccelCall
    /\ pcall = NoPipelineCall
    /\ shot = NoShot
    /\ sem = NoSemaphores
    /\ scene = NoScene
    /\ td = NoTeardown
    /\ lit = NoLights
    /\ sbt = NoSbt
    /\ cam = NoCamera
    /\ buffers = NoBuffers
    /\ trace = NoTrace

Init == pc = "create_cube_blas" /\ InitObjects

----------------------------------------------------------------------------
(* main(): scene setup (main.cpp 679-721) *)

(* Instance lists of main, as the blas_index of each instance: the minimal *)
(* scene has one instance of the first cube, the dungeon scene instances   *)
(* of the cube build_dungeon_scene creates.                                *)
MinimalScene == <<1>>

DungeonScene == [i \in 1 .. MaxInstances |-> 2]

ApplyAccel(r) == accel' = r.a

MainCreateCubeBlas ==
    /\ pc = "create_cube_blas"
    /\ \E f \in BlasFaults :
          LET r == create_blas(AccelWorld, f)
          IN  /\ ApplyAccel(r)
              /\ acall' = AccelCall("create_blas", 0, accel, r)
              /\ pc' = IF r.raised # "" THEN "fatal" ELSE "build_tlas"
    /\ UNCHANGED <<vk, win, gpu, rt, tick, last, pcall, trace, buffers, cam, sbt, lit, td, scene, sem, shot>>

MainBuildTlas ==
    /\ pc = "build_tlas"
    /\ \E f \in TlasFaults :
          LET r == build_tlas(AccelWorld, MinimalScene, f)
          IN  /\ ApplyAccel(r)
              /\ acall' = AccelCall("build_tlas", Len(MinimalScene), accel, r)
              /\ pc' = IF r.raised # "" THEN "fatal" ELSE "rt_pipeline"
    /\ lit' = MinimalSceneLights(lit)
    /\ UNCHANGED <<vk, win, gpu, rt, tick, last, pcall, trace, buffers, cam, sbt, td, scene, sem, shot>>

MainCreatePipeline ==
    /\ pc = "rt_pipeline"
    /\ \E ok \in BOOLEAN :
          IF ok
          THEN /\ rt' = create_descriptor_sets(create_buffers(rt), accel)
               /\ pc' = "build_dungeon_scene"
          ELSE rt' = rt /\ pc' = "fatal"
    /\ UNCHANGED <<vk, win, gpu, accel, tick, last, acall, pcall, trace, buffers, cam, sbt, lit, td, scene, sem, shot>>

(* The lights build_dungeon_scene pushes: nine and the terminator. *)
DungeonLightCount == 10

(* build_dungeon_scene: create_cube_blas, build_tlas(instances), then      *)
(* set_instances(glyph_data), one glyph per instance, and                  *)
(* set_lights(lights) with the lights it pushed.  The arrays are locals of *)
(* main: a raise unwinds them.                                             *)
MainBuildDungeonScene ==
    /\ pc = "build_dungeon_scene"
    /\ \E fb \in BlasFaults, ft \in TlasFaults, fi \in BufferFaults, fl \in BufferFaults :
          LET r1 == create_blas(AccelWorld, fb)
              r2 == IF r1.raised # "" THEN r1
                    ELSE build_tlas([r1 EXCEPT !.log = <<>>, !.failed = ""],
                                    DungeonScene, ft)
              p1 == set_instances(PWorld, Len(DungeonScene), fi)
              p2 == IF p1.raised # "" THEN p1
                    ELSE set_lights(p1, DungeonLightCount, fl)
              l1 == build_dungeon_scene(lit)
          IN  /\ r2.raised # "" => fi = "none" /\ fl = "none"
              /\ p1.raised # "" => fl = "none"
              /\ lit' = IF r2.raised # "" \/ p2.raised # "" THEN lit
                        ELSE [l1 EXCEPT !.uploaded =
                                 IF p2.p.m_light_count = Len(l1.lights)
                                 THEN l1.lights ELSE lit.uploaded]
              /\ ApplyAccel(r2)
              /\ acall' = IF r1.raised # ""
                          THEN AccelCall("create_blas", 0, accel, r1)
                          ELSE AccelCall("build_tlas", Len(DungeonScene), accel, r2)
              /\ rt' = IF r2.raised # "" THEN rt ELSE p2.p
              /\ pc' = IF r2.raised # "" \/ p2.raised # ""
                       THEN "fatal" ELSE "update_tlas_descriptor"
    /\ UNCHANGED <<vk, win, gpu, tick, last, pcall, trace, buffers, cam, sbt, td, scene, sem, shot>>

(* rt_pipeline.update_tlas_descriptor(); the record of the scene's build  *)
(* call ends with the startup.                                             *)
MainUpdateTlasDescriptor ==
    /\ pc = "update_tlas_descriptor"
    /\ rt' = update_tlas_descriptor(rt, accel)
    /\ acall' = NoAccelCall
    /\ pc' = "loop"
    /\ UNCHANGED <<vk, win, gpu, accel, tick, last, pcall, trace, buffers, cam, sbt, lit, td, scene, sem, shot>>

----------------------------------------------------------------------------
(* main(): the frame loop (main.cpp 873-1034) *)

ApplyWorld(r) ==
    /\ vk' = r.vk
    /\ win' = r.win
    /\ gpu' = r.gpu

CallOf(name, r) ==
    [call |-> name, acq |-> r.acq, submit |-> r.submit, present |-> r.present,
     resizeSeen |-> r.resizeSeen, raised |-> r.raised, early |-> r.early,
     rcEntered |-> r.rcEntered, rcPath |-> r.rcPath, polls |-> r.polls,
     query |-> r.query, log |-> r.log, resetPending |-> r.resetPending,
     signals |-> r.signals, waits |-> r.waits]

(* Top of an iteration: the loop condition and the frame limit, then       *)
(* poll_events(), during which the resize callback may run.                *)
LoopExit ==
    /\ pc = "loop"
    /\ pc' = "exit"
    /\ tick' = NoTick
    /\ last' = NoCall
    /\ UNCHANGED <<vk, win, gpu, accel, rt, acall, pcall, trace, buffers, cam, sbt, lit, td, scene, sem, shot>>

LoopPoll ==
    /\ pc = "loop"
    /\ \E sz \in WinSizes :
          win' = IF sz = <<win.m_width, win.m_height>>
                 THEN win
                 ELSE [m_width |-> sz[1], m_height |-> sz[2], m_resized |-> TRUE]
    /\ tick' = NoTick
    /\ last' = NoCall
    /\ pc' = "begin_frame"
    /\ UNCHANGED <<vk, gpu, accel, rt, acall, pcall, trace, buffers, cam, sbt, lit, td, scene, sem, shot>>

(* vulkan.begin_frame(): enabled once vkWaitForFences can return. *)
BeginFrame ==
    /\ pc = "begin_frame"
    /\ vk.m_in_flight_fences[vk.m_current_frame]
    /\ \E in \in BeginInputs(World) :
          LET r == begin_frame(World, in)
          IN  /\ ApplyWorld(r)
              /\ last' = CallOf("begin_frame", r)
              /\ tick' = [tick EXCEPT !.skipped = r.early]
              /\ pc' = IF r.raised # "" THEN "fatal" ELSE "record"
    /\ UNCHANGED <<accel, rt, acall, pcall, trace, buffers, cam, sbt, lit, td, scene, sem, shot>>

(* main.cpp 921-1009: the loop body between begin_frame and end_frame. It  *)
(* runs whatever begin_frame did: resize_storage_image at the swapchain    *)
(* extent, then into current_command_buffer() the output image's           *)
(* transition to GENERAL, trace_rays, its transition to TRANSFER_SRC and   *)
(* the blit.                                                               *)
RecordFrame ==
    /\ pc = "record"
    /\ \E f \in ImageFaults :
          LET width  == vk.m_swapchain_extent[1]
              height == vk.m_swapchain_extent[2]
              r1 == resize_storage_image(PWorld, width, height, f)
              r2 == IF r1.raised # "" THEN r1
                    ELSE trace_rays(r1, width, height, "none")
          IN  /\ f = "none" \/ ~SameDimensions(rt, width, height)
              /\ ApplyWorld(r2)
              /\ IF r2.raised = ""
                 THEN /\ rt' = [r2.p EXCEPT !.layout = "TRANSFER_SRC"]
                      /\ trace' = DispatchOf(r2.p, accel, width, height)
                      /\ tick' = [tick EXCEPT
                                    !.recorded = TRUE,
                                    !.oneShot = "single_time_commands"
                                                    \in SeqToSet(r2.log)]
                      /\ pc' = "end_frame"
                 ELSE /\ rt' = r2.p
                      /\ UNCHANGED <<trace, tick>>
                      /\ pc' = "fatal"
    /\ last' = NoCall
    /\ UNCHANGED <<accel, acall, pcall, buffers, cam, sbt, lit, td, scene, sem, shot>>

(* vulkan.end_frame() *)
EndFrame ==
    /\ pc = "end_frame"
    /\ \E in \in EndInputs(World) :
          LET r == end_frame(World, in)
          IN  /\ ApplyWorld(r)
              /\ last' = CallOf("end_frame", r)
              /\ tick' = [tick EXCEPT !.ended = TRUE]
              /\ pc' = IF r.raised # "" THEN "fatal" ELSE "loop"
    /\ UNCHANGED <<accel, rt, acall, pcall, trace, buffers, cam, sbt, lit, td, scene, sem, shot>>

(* The GPU completes its oldest submission: the fence it was submitted     *)
(* with becomes signaled and its one-time-submit command buffer invalid.   *)
GpuComplete ==
    /\ pc \notin {"fatal", "done"}
    /\ gpu # <<>>
    /\ gpu' = Tail(gpu)
    /\ vk' = [vk EXCEPT !.m_in_flight_fences[Head(gpu)] = TRUE,
                        !.m_command_buffers[Head(gpu)] =
                            IF Head(gpu) \in SeqToSet(Tail(gpu)) THEN @ ELSE "invalid"]
    /\ UNCHANGED <<pc, win, accel, rt, tick, last, acall, pcall, trace, buffers, cam, sbt, lit, td, scene, sem, shot>>

(* After the loop: vulkan.wait_idle() (main.cpp 1044). *)
Shutdown ==
    /\ pc = "exit"
    /\ ApplyWorld(wait_idle(World))
    /\ pc' = "screenshot"
    /\ UNCHANGED <<accel, rt, tick, last, acall, pcall, trace, buffers, cam, sbt, lit, td, scene, sem, shot>>

(* main.cpp 1047-1054: the capture, when a screenshot was asked for and    *)
(* frame_count > 0; frame_count is positive at this point iff the loop has *)
(* recorded a frame, since an iteration that does not reach frame_count++  *)
(* ends the program.                                                       *)
MainCaptureScreenshot ==
    /\ pc = "screenshot"
    /\ \E screenshot \in BOOLEAN, f \in CaptureFaults, opened \in BOOLEAN :
          IF screenshot /\ trace.recorded
          THEN LET r == capture_screenshot(PWorld, f)
               IN  /\ ApplyWorld(r)
                   /\ rt' = r.p
                   /\ pcall' = PipelineCall("capture_screenshot", <<0, 0>>, 0, r)
                   /\ IF r.raised = "" /\ r.result = "pixels"
                      THEN shot' = save_screenshot_ppm(shot, opened, r.p.m_storage_extent,
                                                       r.vk.m_swapchain_extent[1],
                                                       r.vk.m_swapchain_extent[2])
                      ELSE opened /\ shot' = shot
                   /\ pc' = IF r.raised # "" THEN "fatal" ELSE "done"
          ELSE /\ f = "none" /\ opened
               /\ pc' = "done"
               /\ UNCHANGED <<vk, win, gpu, rt, pcall, shot>>
    /\ UNCHANGED <<accel, tick, last, acall, trace, buffers, cam, sbt, lit, td, scene, sem>>

----------------------------------------------------------------------------
(* The pipeline called on its own: its constructor, then any sequence of   *)
(* its functions with every sampled argument, while frames that bind the   *)
(* descriptor set are submitted and complete.                              *)

(* Widths and heights asked for, zero included. *)
StorageSizes ==
    {<<0, 0>>, <<0, 1>>, <<1, 0>>} \cup {<<w, 1>> : w \in 1 .. MaxDim + 1}

(* List lengths: none, the capacity the buffer starts with, one more, and  *)
(* one more than the capacity the first growth gives.                      *)
InstanceSamples ==
    {0, InitialInstanceCapacity, InitialInstanceCapacity + 1,
     2 * (InitialInstanceCapacity + 1) + 1}

LightSamples == {0, InitialLightCapacity, InitialLightCapacity + 1}

HarnessConstruct ==
    /\ pc = "pipeline_ctor"
    /\ rt' = create_descriptor_sets(create_buffers(rt), accel)
    /\ pc' = "pipeline"
    /\ UNCHANGED <<vk, win, gpu, accel, tick, last, acall, pcall, trace, buffers, cam, sbt, lit, td, scene, sem, shot>>

ApplyPipeline(name, args, n, r) ==
    /\ ApplyWorld(r)
    /\ rt' = r.p
    /\ pcall' = PipelineCall(name, args, n, r)
    /\ pc' = IF r.raised # "" THEN "fatal" ELSE "pipeline"

HarnessResizeStorage ==
    /\ pc = "pipeline"
    /\ \E d \in StorageSizes, f \in ImageFaults :
          /\ f = "none" \/ ~SameDimensions(rt, d[1], d[2])
          /\ ApplyPipeline("resize_storage_image", d, 0,
                           resize_storage_image(PWorld, d[1], d[2], f))
    /\ UNCHANGED <<accel, tick, last, acall, trace, buffers, cam, sbt, lit, td, scene, sem, shot>>

HarnessSetInstances ==
    /\ pc = "pipeline"
    /\ \E n \in InstanceSamples, f \in BufferFaults :
          /\ n = 0 => f = "none"
          /\ ApplyPipeline("set_instances", <<0, 0>>, n, set_instances(PWorld, n, f))
    /\ UNCHANGED <<accel, tick, last, acall, trace, buffers, cam, sbt, lit, td, scene, sem, shot>>

HarnessSetLights ==
    /\ pc = "pipeline"
    /\ \E n \in LightSamples, f \in BufferFaults :
          /\ n = 0 => f = "none"
          /\ ApplyPipeline("set_lights", <<0, 0>>, n, set_lights(PWorld, n, f))
    /\ UNCHANGED <<accel, tick, last, acall, trace, buffers, cam, sbt, lit, td, scene, sem, shot>>

HarnessTraceRays ==
    /\ pc = "pipeline"
    /\ \E d \in StorageSizes, f \in ImageFaults :
          LET r == trace_rays(PWorld, d[1], d[2], f)
          IN  /\ f = "none" \/ ~SameDimensions(rt, d[1], d[2])
              /\ ApplyPipeline("trace_rays", d, 0, r)
    /\ UNCHANGED <<accel, tick, last, acall, trace, buffers, cam, sbt, lit, td, scene, sem, shot>>

HarnessCapture ==
    /\ pc = "pipeline"
    /\ \E f \in CaptureFaults :
          ApplyPipeline("capture_screenshot", <<0, 0>>, 0, capture_screenshot(PWorld, f))
    /\ UNCHANGED <<accel, tick, last, acall, trace, buffers, cam, sbt, lit, td, scene, sem, shot>>

(* A command buffer that binds the descriptor set is submitted. *)
HarnessSubmit ==
    /\ pc = "pipeline"
    /\ Len(gpu) < MaxQueue
    /\ gpu' = Append(gpu, vk.m_current_frame)
    /\ UNCHANGED <<pc, vk, win, accel, rt, tick, last, acall, pcall, trace, buffers, cam, sbt, lit, td, scene, sem, shot>>

InitPipeline == pc = "pipeline_ctor" /\ InitObjects

(* The output image's functions. *)
NextPipeline ==
    \/ HarnessConstruct
    \/ HarnessResizeStorage
    \/ HarnessTraceRays
    \/ HarnessCapture
    \/ HarnessSubmit
    \/ GpuComplete

SpecPipeline == InitPipeline /\ [][NextPipeline]_vars

(* The instance and light buffers' functions. *)
NextBuffers ==
    \/ HarnessConstruct
    \/ HarnessSetInstances
    \/ HarnessSetLights
    \/ HarnessSubmit
    \/ GpuComplete

SpecBuffers == InitPipeline /\ [][NextBuffers]_vars

----------------------------------------------------------------------------
(* recreate_swapchain() called on its own, from every state a sequence of  *)
(* window events and recreations leads to, with every sampled input.       *)

HarnessResize ==
    /\ pc = "recreate"
    /\ \E sz \in WinSizes \ {<<win.m_width, win.m_height>>} :
          win' = [m_width |-> sz[1], m_height |-> sz[2], m_resized |-> TRUE]
    /\ last' = NoCall
    /\ UNCHANGED <<pc, vk, gpu, accel, rt, tick, acall, pcall, trace, buffers, cam, sbt, lit, td, scene, sem, shot>>

HarnessRecreate ==
    /\ pc = "recreate"
    /\ \E in \in RcInputsFor[<<win.m_width, win.m_height>>] :
          LET r == recreate_swapchain(World, in)
          IN  /\ ApplyWorld(r)
              /\ last' = CallOf("recreate_swapchain", r)
              /\ pc' = IF r.raised # "" THEN "fatal" ELSE "recreate"
    /\ UNCHANGED <<accel, rt, tick, acall, pcall, trace, buffers, cam, sbt, lit, td, scene, sem, shot>>

InitRecreate == pc = "recreate" /\ InitObjects

NextRecreate == HarnessResize \/ HarnessRecreate

SpecRecreate == InitRecreate /\ [][NextRecreate]_vars

----------------------------------------------------------------------------
(* The manager called on its own: any sequence of create_blas and          *)
(* build_tlas, the instance lists of every length up to MaxInstances over  *)
(* the BLAS that exist.                                                    *)

InstanceLists ==
    UNION {[1 .. n -> 1 .. Len(accel.m_blas_list)] : n \in 0 .. MaxInstances}

HarnessCreateBlas ==
    /\ pc = "accel"
    /\ Len(accel.m_blas_list) < MaxBlas
    /\ \E f \in BlasFaults :
          LET r == create_blas(AccelWorld, f)
          IN  /\ ApplyAccel(r)
              /\ acall' = AccelCall("create_blas", 0, accel, r)
              /\ pc' = IF r.raised # "" THEN "fatal" ELSE "accel"
    /\ UNCHANGED <<vk, win, gpu, rt, tick, last, pcall, trace, buffers, cam, sbt, lit, td, scene, sem, shot>>

HarnessBuildTlas ==
    /\ pc = "accel"
    /\ accel.next <= MaxHandles
    /\ \E instances \in InstanceLists, f \in TlasFaults :
          LET r == build_tlas(AccelWorld, instances, f)
          IN  /\ ApplyAccel(r)
              /\ acall' = AccelCall("build_tlas", Len(instances), accel, r)
              /\ pc' = IF r.raised # "" THEN "fatal" ELSE "accel"
    /\ UNCHANGED <<vk, win, gpu, rt, tick, last, pcall, trace, buffers, cam, sbt, lit, td, scene, sem, shot>>

InitAccel == pc = "accel" /\ InitObjects

NextAccel == HarnessCreateBlas \/ HarnessBuildTlas

SpecAccel == InitAccel /\ [][NextAccel]_vars

----------------------------------------------------------------------------
(* Buffer objects used on their own: a caller that constructs, moves,      *)
(* maps, destroys and destructs the objects of a few slots.                *)

HarnessBufferConstruct ==
    /\ pc = "buffer_objects"
    /\ \E i \in BufferSlots, fault \in {"none", "create_buffer"} :
          /\ ~buffers.objs[i].alive
          /\ buffers.next <= MaxAllocations
          /\ buffers' = Buffer_construct(BufferCall(buffers, "construct", i, 0), i, fault)
    /\ UNCHANGED <<pc, vk, win, gpu, accel, rt, tick, last, acall, pcall, trace, cam, sbt, lit, td, scene, sem, shot>>

HarnessBufferDefault ==
    /\ pc = "buffer_objects"
    /\ \E i \in BufferSlots :
          /\ ~buffers.objs[i].alive
          /\ buffers' = [BufferCall(buffers, "default", i, 0) EXCEPT
                            !.objs[i] = EmptyBuffer]
    /\ UNCHANGED <<pc, vk, win, gpu, accel, rt, tick, last, acall, pcall, trace, cam, sbt, lit, td, scene, sem, shot>>

HarnessBufferMoveConstruct ==
    /\ pc = "buffer_objects"
    /\ \E i \in BufferSlots, other \in BufferSlots :
          /\ ~buffers.objs[i].alive
          /\ buffers.objs[other].alive
          /\ buffers' = Buffer_move_construct(
                            BufferCall(buffers, "move_construct", i, other), i, other)
    /\ UNCHANGED <<pc, vk, win, gpu, accel, rt, tick, last, acall, pcall, trace, cam, sbt, lit, td, scene, sem, shot>>

HarnessBufferMoveAssign ==
    /\ pc = "buffer_objects"
    /\ \E i \in BufferSlots, other \in BufferSlots :
          /\ buffers.objs[i].alive
          /\ buffers.objs[other].alive
          /\ buffers' = Buffer_move_assign(
                            BufferCall(buffers, "move_assign", i, other), i, other)
    /\ UNCHANGED <<pc, vk, win, gpu, accel, rt, tick, last, acall, pcall, trace, cam, sbt, lit, td, scene, sem, shot>>

HarnessBufferDestroy ==
    /\ pc = "buffer_objects"
    /\ \E i \in BufferSlots :
          /\ buffers.objs[i].alive
          /\ buffers' = Buffer_destroy(BufferCall(buffers, "destroy", i, 0), i)
    /\ UNCHANGED <<pc, vk, win, gpu, accel, rt, tick, last, acall, pcall, trace, cam, sbt, lit, td, scene, sem, shot>>

HarnessBufferDestruct ==
    /\ pc = "buffer_objects"
    /\ \E i \in BufferSlots :
          /\ buffers.objs[i].alive
          /\ buffers' = Buffer_destruct(BufferCall(buffers, "destruct", i, 0), i)
    /\ UNCHANGED <<pc, vk, win, gpu, accel, rt, tick, last, acall, pcall, trace, cam, sbt, lit, td, scene, sem, shot>>

(* map(), unmap() and upload(), on a buffer that holds an allocation. *)
HarnessBufferMap ==
    /\ pc = "buffer_objects"
    /\ \E i \in BufferSlots, fault \in {"none", "map_memory"} :
          /\ buffers.objs[i].alive
          /\ buffers.objs[i].m_buffer # NULL
          /\ fault = "none" \/ ~buffers.objs[i].m_mapped
          /\ buffers' = Buffer_map(BufferCall(buffers, "map", i, 0), i, fault)
    /\ UNCHANGED <<pc, vk, win, gpu, accel, rt, tick, last, acall, pcall, trace, cam, sbt, lit, td, scene, sem, shot>>

HarnessBufferUnmap ==
    /\ pc = "buffer_objects"
    /\ \E i \in BufferSlots :
          /\ buffers.objs[i].alive
          /\ buffers.objs[i].m_buffer # NULL
          /\ buffers' = Buffer_unmap(BufferCall(buffers, "unmap", i, 0), i)
    /\ UNCHANGED <<pc, vk, win, gpu, accel, rt, tick, last, acall, pcall, trace, cam, sbt, lit, td, scene, sem, shot>>

HarnessBufferUpload ==
    /\ pc = "buffer_objects"
    /\ \E i \in BufferSlots, fault \in {"none", "map_memory"} :
          /\ buffers.objs[i].alive
          /\ buffers.objs[i].m_buffer # NULL
          /\ fault = "none" \/ ~buffers.objs[i].m_mapped
          /\ buffers' = Buffer_upload(BufferCall(buffers, "upload", i, 0), i, fault)
    /\ UNCHANGED <<pc, vk, win, gpu, accel, rt, tick, last, acall, pcall, trace, cam, sbt, lit, td, scene, sem, shot>>

InitBufferObjects == pc = "buffer_objects" /\ InitObjects

NextBufferObjects ==
    \/ HarnessBufferConstruct
    \/ HarnessBufferDefault
    \/ HarnessBufferMoveConstruct
    \/ HarnessBufferMoveAssign
    \/ HarnessBufferDestroy
    \/ HarnessBufferDestruct
    \/ HarnessBufferMap
    \/ HarnessBufferUnmap
    \/ HarnessBufferUpload

SpecBufferObjects == InitBufferObjects /\ [][NextBufferObjects]_vars

----------------------------------------------------------------------------
(* The frame loop's camera code and the control thread's camera.set, run   *)
(* side by side.                                                           *)

(* The value a camera.set gives a field. *)
SetValues == {MaxPose}

(* The iteration's input, kept to what leaves the pose within PoseValues. *)
HarnessLoopPoll ==
    /\ pc = "camera"
    /\ cam.lpc = "poll"
    /\ \E d \in {0, 1} :
          /\ d = 1 => /\ \A f \in PoseFields : cam.pose[f] - d \in PoseValues
                      /\ \A f \in PoseFields : cam.pose[f] + d \in PoseValues
          /\ cam' = LoopPollCamera(cam, d)
    /\ UNCHANGED <<pc, vk, win, gpu, accel, rt, tick, last, acall, pcall, trace, buffers, sbt, lit, td, scene, sem, shot>>

HarnessLoopLoad ==
    /\ pc = "camera"
    /\ cam.lpc \in {"yaw_load", "pitch_load", "clamp_load", "pos_load"}
    /\ cam' = LoopLoad(cam)
    /\ UNCHANGED <<pc, vk, win, gpu, accel, rt, tick, last, acall, pcall, trace, buffers, sbt, lit, td, scene, sem, shot>>

HarnessLoopStore ==
    /\ pc = "camera"
    /\ cam.lpc \in {"yaw_store", "pitch_store", "clamp_store", "pos_store"}
    /\ cam' = LoopStore(cam)
    /\ UNCHANGED <<pc, vk, win, gpu, accel, rt, tick, last, acall, pcall, trace, buffers, sbt, lit, td, scene, sem, shot>>

HarnessLoopForward ==
    /\ pc = "camera"
    /\ cam.lpc = "forward"
    /\ cam' = LoopForward(cam)
    /\ UNCHANGED <<pc, vk, win, gpu, accel, rt, tick, last, acall, pcall, trace, buffers, sbt, lit, td, scene, sem, shot>>

HarnessLoopView ==
    /\ pc = "camera"
    /\ cam.lpc = "view"
    /\ cam' = LoopView(cam)
    /\ UNCHANGED <<pc, vk, win, gpu, accel, rt, tick, last, acall, pcall, trace, buffers, sbt, lit, td, scene, sem, shot>>

HarnessCameraSetBegin ==
    /\ pc = "camera"
    /\ cam.hpc = 0
    /\ \E v \in SetValues, fs \in (SUBSET PoseFields) \ {{}} :
          cam' = CameraSetBegin(cam, [f \in PoseFields |-> IF f \in fs THEN {v} ELSE {}])
    /\ UNCHANGED <<pc, vk, win, gpu, accel, rt, tick, last, acall, pcall, trace, buffers, sbt, lit, td, scene, sem, shot>>

HarnessCameraSetStep ==
    /\ pc = "camera"
    /\ cam.hpc > 0
    /\ cam' = CameraSetStep(cam)
    /\ UNCHANGED <<pc, vk, win, gpu, accel, rt, tick, last, acall, pcall, trace, buffers, sbt, lit, td, scene, sem, shot>>

InitCamera == pc = "camera" /\ InitObjects

NextCamera ==
    \/ HarnessLoopPoll
    \/ HarnessLoopLoad
    \/ HarnessLoopStore
    \/ HarnessLoopForward
    \/ HarnessLoopView
    \/ HarnessCameraSetBegin
    \/ HarnessCameraSetStep

SpecCamera == InitCamera /\ [][NextCamera]_vars

----------------------------------------------------------------------------
(* create_shader_binding_table over the device properties: every handle    *)
(* size up to MaxHandleSize, alignments that are powers of two.            *)

PowersOfTwo == {1, 2, 4, 8, 16}

HarnessCreateSbt ==
    /\ pc = "sbt"
    /\ \E h \in 1 .. MaxHandleSize, a \in PowersOfTwo, b \in PowersOfTwo :
          sbt' = create_shader_binding_table(h, a, b)
    /\ UNCHANGED <<pc, vk, win, gpu, accel, rt, tick, last, acall, pcall, trace, buffers, cam, lit, td, scene, sem, shot>>

InitSbt == pc = "sbt" /\ InitObjects

NextSbt == HarnessCreateSbt

SpecSbt == InitSbt /\ [][NextSbt]_vars

----------------------------------------------------------------------------
(* main()'s light array from its declaration to the server's stop, with a  *)
(* control client that sends up to MaxReports requests.                    *)

LightsUnchanged ==
    UNCHANGED <<pc, vk, win, gpu, accel, rt, tick, last, acall, pcall, trace, buffers, cam, sbt, td, scene, sem, shot>>

HarnessMinimalScene ==
    /\ pc = "lights" /\ lit.at = "declared"
    /\ lit' = MinimalSceneLights(lit)
    /\ LightsUnchanged

HarnessBuildDungeonScene ==
    /\ pc = "lights" /\ lit.at = "minimal"
    /\ lit' = build_dungeon_scene(lit)
    /\ LightsUnchanged

HarnessRegisterHandlers ==
    /\ pc = "lights" /\ lit.at = "built"
    /\ \E ipc_port \in {0, 1}, started \in BOOLEAN :
          lit' = RegisterHandlers(lit, ipc_port, started)
    /\ LightsUnchanged

HarnessStatsGet ==
    /\ pc = "lights" /\ lit.running /\ "stats.get" \in lit.handlers
    /\ Len(lit.reports) <= MaxReports
    /\ lit' = stats_get(lit)
    /\ LightsUnchanged

HarnessSceneGet ==
    /\ pc = "lights" /\ lit.running /\ "scene.get" \in lit.handlers
    /\ Len(lit.reports) <= MaxReports
    /\ lit' = scene_get(lit)
    /\ LightsUnchanged

HarnessStopServer ==
    /\ pc = "lights" /\ lit.at = "loop"
    /\ lit' = StopServer(lit)
    /\ LightsUnchanged

InitLights == pc = "lights" /\ InitObjects

NextLights ==
    \/ HarnessMinimalScene
    \/ HarnessBuildDungeonScene
    \/ HarnessRegisterHandlers
    \/ HarnessStatsGet
    \/ HarnessSceneGet
    \/ HarnessStopServer

SpecLights == InitLights /\ [][NextLights]_vars

----------------------------------------------------------------------------
(* The destructors run at the end of main()'s scope, after any sequence of *)
(* create_blas and build_tlas (a failed one included, which unwinds the    *)
(* scope), with or without a pipeline and its output image, and with       *)
(* submissions still in the queue.                                         *)

TeardownUnchanged ==
    UNCHANGED <<tick, last, acall, pcall, trace, buffers, cam, sbt, lit, scene, sem, shot>>

ApplyTeardown(r, stage) ==
    /\ ApplyWorld(r)
    /\ accel' = r.a
    /\ rt' = r.p
    /\ td' = [r.t EXCEPT !.log = r.log, !.stage = stage]
    /\ pc' = "unwind"

HarnessTdPipeline ==
    /\ pc = "accel" /\ ~rt.created
    /\ \E image \in BOOLEAN :
          LET p == create_descriptor_sets(create_buffers(rt), accel)
          IN  rt' = IF image
                    THEN [p EXCEPT !.m_storage_image = 1,
                                   !.m_storage_image_view = 1,
                                   !.m_storage_extent = vk.m_swapchain_extent,
                                   !.image_extent = vk.m_swapchain_extent]
                    ELSE p
    /\ UNCHANGED <<pc, vk, win, gpu, accel, td>>
    /\ TeardownUnchanged

HarnessTdSubmit ==
    /\ pc = "accel" /\ rt.created
    /\ Len(gpu) < MaxQueue
    /\ gpu' = Append(gpu, vk.m_current_frame)
    /\ UNCHANGED <<pc, vk, win, accel, rt, td>>
    /\ TeardownUnchanged

TeardownPipeline ==
    /\ pc \in {"accel", "fatal"} /\ td.stage = "live"
    /\ ApplyTeardown(IF rt.created THEN RTPipeline_destructor(TWorld) ELSE TWorld,
                     "pipeline_gone")
    /\ TeardownUnchanged

TeardownAccel ==
    /\ pc = "unwind" /\ td.stage = "pipeline_gone"
    /\ ApplyTeardown(Accel_destructor(TWorld), "accel_gone")
    /\ TeardownUnchanged

TeardownContext ==
    /\ pc = "unwind" /\ td.stage = "accel_gone"
    /\ ApplyTeardown(VulkanContext_destructor(TWorld), "exited")
    /\ TeardownUnchanged

NextTeardown ==
    \/ HarnessCreateBlas
    \/ HarnessBuildTlas
    \/ HarnessTdPipeline
    \/ HarnessTdSubmit
    \/ TeardownPipeline
    \/ TeardownAccel
    \/ TeardownContext

SpecTeardown == InitAccel /\ [][NextTeardown]_vars

----------------------------------------------------------------------------
(* main() from the declaration of the two arrays to the end of             *)
(* build_dungeon_scene, one pushed pair at a time.                         *)

SceneUnchanged ==
    UNCHANGED <<pc, vk, win, gpu, accel, rt, tick, last, acall, pcall, trace, buffers, cam, sbt, lit, td, sem, shot>>

HarnessSceneMinimal ==
    /\ pc = "scene" /\ scene.at = "declared"
    /\ scene' = MinimalSceneInstances(scene)
    /\ SceneUnchanged

HarnessSceneClear ==
    /\ pc = "scene" /\ scene.at = "minimal"
    /\ scene' = ClearScene(scene)
    /\ SceneUnchanged

HarnessScenePush ==
    /\ pc = "scene" /\ scene.at = "building"
    /\ scene' = PushNext(scene)
    /\ SceneUnchanged

HarnessSceneUpload ==
    /\ pc = "scene" /\ scene.at = "filled"
    /\ scene' = UploadScene(scene)
    /\ SceneUnchanged

InitScene == pc = "scene" /\ InitObjects

NextScene ==
    \/ HarnessSceneMinimal
    \/ HarnessSceneClear
    \/ HarnessScenePush
    \/ HarnessSceneUpload

SpecScene == InitScene /\ [][NextScene]_vars

----------------------------------------------------------------------------
(* Frames against the device and the presentation engine, which run on     *)
(* their own: the context only learns of a completed submission through    *)
(* the slot's fence, and of a released image through acquisition.          *)

SemUnchanged ==
    UNCHANGED <<pc, vk, win, gpu, accel, rt, tick, last, acall, pcall, trace, buffers, cam, sbt, lit, td, scene, shot>>

HarnessSemSwapchain ==
    /\ pc = "semaphores" /\ sem.count = 0
    /\ \E n \in 2 .. MaxSwapImages :
          sem' = [sem EXCEPT !.count = n, !.images = [i \in 1 .. n |-> "free"]]
    /\ SemUnchanged

HarnessSemBeginFrame ==
    /\ pc = "semaphores" /\ sem.count > 0 /\ sem.at = "begin_frame"
    /\ sem.fences[sem.m_current_frame]
    /\ \E i \in SwapImages(sem.count) :
          /\ sem.images[i + 1] = "free"
          /\ sem' = AcquireWithSemaphore(sem, i)
    /\ SemUnchanged

HarnessSemEndFrame ==
    /\ pc = "semaphores" /\ sem.at = "end_frame"
    /\ sem' = SubmitAndPresent(sem)
    /\ SemUnchanged

HarnessSemDevice ==
    /\ pc = "semaphores" /\ sem.submitted # <<>>
    /\ sem' = CompleteSubmission(sem)
    /\ SemUnchanged

HarnessSemPresentWait ==
    /\ pc = "semaphores" /\ NextToWait(sem) # 0
    /\ sem.render_finished[sem.presents[NextToWait(sem)].slot]
    /\ sem' = CompletePresentWait(sem)
    /\ SemUnchanged

HarnessSemRelease ==
    /\ pc = "semaphores" /\ sem.presents # <<>>
    /\ Head(sem.presents).waited
    /\ sem' = ReleaseImage(sem)
    /\ SemUnchanged

InitSemaphores == pc = "semaphores" /\ InitObjects

NextSemaphores ==
    \/ HarnessSemSwapchain
    \/ HarnessSemBeginFrame
    \/ HarnessSemEndFrame
    \/ HarnessSemDevice
    \/ HarnessSemPresentWait
    \/ HarnessSemRelease

SpecSemaphores == InitSemaphores /\ [][NextSemaphores]_vars

----------------------------------------------------------------------------
(* The whole program *)

Next ==
    \/ MainCreateCubeBlas
    \/ MainBuildTlas
    \/ MainCreatePipeline
    \/ MainBuildDungeonScene
    \/ MainUpdateTlasDescriptor
    \/ LoopExit
    \/ LoopPoll
    \/ BeginFrame
    \/ RecordFrame
    \/ EndFrame
    \/ GpuComplete
    \/ Shutdown
    \/ MainCaptureScreenshot

Spec == Init /\ [][Next]_vars

(* The program on a display whose window can also be one step wider than   *)
(* MaxDim, so that a recreation can change the swapchain's extent.         *)
HarnessWideLoopPoll ==
    /\ pc = "loop"
    /\ \E sz \in WideSizes :
          win' = IF sz = <<win.m_width, win.m_height>>
                 THEN win
                 ELSE [m_width |-> sz[1], m_height |-> sz[2], m_resized |-> TRUE]
    /\ tick' = NoTick
    /\ last' = NoCall
    /\ pc' = "begin_frame"
    /\ UNCHANGED <<vk, gpu, accel, rt, acall, pcall, trace, buffers, cam, sbt, lit, td, scene, sem, shot>>

NextWide ==
    \/ MainCreateCubeBlas
    \/ MainBuildTlas
    \/ MainCreatePipeline
    \/ MainBuildDungeonScene
    \/ MainUpdateTlasDescriptor
    \/ LoopExit
    \/ HarnessWideLoopPoll
    \/ BeginFrame
    \/ RecordFrame
    \/ EndFrame
    \/ GpuComplete
    \/ Shutdown
    \/ MainCaptureScreenshot

SpecWide == Init /\ [][NextWide]_vars

----------------------------------------------------------------------------
(* Properties *)

Has(log, e) == \E i \in 1 .. Len(log) : log[i] = e

Precedes(log, a, b) ==
    \A i, j \in 1 .. Len(log) : log[i] = a /\ log[j] = b => i < j

(* Submissions in the queue whose fence is not signaled. *)
InFlight == {i \in 1 .. Len(gpu) : ~vk.m_in_flight_fences[gpu[i]]}

(* The TLAS handles that are live on the device. *)
LiveTlas(a) ==
    a.live \ {a.m_blas_list[i].handle : i \in 1 .. Len(a.m_blas_list)}

(* C1: when begin_frame returns early (acquisition out-of-date or          *)
(* surface-lost, after the recreation) the iteration produces no frame:    *)
(* no commands are recorded and end_frame is not called in it.             *)
C1_EarlyReturnProducesNoFrame ==
    tick.skipped => ~tick.recorded /\ ~tick.ended

(* C2: at most MAX_FRAMES_IN_FLIGHT submissions are in flight (submitted,  *)
(* fence not yet signaled), and begin_frame resets a slot's command buffer *)
(* only when the GPU has completed that slot's previous submission.        *)
C2_SlotReusedOnlyAfterCompletion ==
    /\ Cardinality(InFlight) <= MAX_FRAMES_IN_FLIGHT
    /\ last.call = "begin_frame" => ~last.resetPending

(* C3: an acquisition or presentation result of out-of-date, suboptimal or *)
(* surface-lost is never raised as an error by begin_frame or end_frame.   *)
C3_TransientResultsNotRaised ==
    /\ last.call = "begin_frame" /\ last.acq \in Transient
          => last.raised # "acquire"
    /\ last.call = "end_frame" /\ last.present \in Transient
          => last.raised # "present"

C5_OtherFailuresAreRaised ==
    /\ last.acq = "ERROR" => last.raised = "acquire"
    /\ last.submit = "ERROR" => last.raised = "submit"
    /\ last.present = "ERROR" => last.raised = "present"
    /\ last.query = "ERROR" => last.raised # ""

(* C6: recreate_swapchain returns after at most 101 polls; it goes on to   *)
(* the rebuild only with a non-zero window, and when it gives up it has    *)
(* polled 101 times, has not waited for the device, has destroyed and      *)
(* created nothing, and leaves the swapchain handle, its images, its views *)
(* and its extent as they were.                                            *)
C6_RecreateGivesUpAfter101Polls ==
    [][last'.call = "recreate_swapchain" =>
          /\ last'.rcPath \in {"gave_up", "query_failed", "rebuilt"}
                \/ last'.raised # ""
          /\ last'.polls <= 101
          /\ last'.rcPath # "gave_up" => ~IsZeroSize(<<win'.m_width, win'.m_height>>)
          /\ last'.rcPath = "gave_up" =>
                /\ last'.polls = 101
                /\ last'.raised = ""
                /\ last'.log = <<>>
                /\ gpu' = gpu
                /\ vk'.m_swapchain = vk.m_swapchain
                /\ vk'.m_swapchain_images = vk.m_swapchain_images
                /\ vk'.m_swapchain_image_views = vk.m_swapchain_image_views
                /\ vk'.m_swapchain_extent = vk.m_swapchain_extent]_vars

(* C6 witness: a recreation entered with a zero-sized window has given up  *)
(* after 101 polls.                                                        *)
C6_Witness ==
    /\ last.call = "recreate_swapchain"
    /\ last.rcPath = "gave_up"
    /\ last.polls = 101

(* C7: recreate_swapchain destroys and recreates the surface iff the       *)
(* capability query reports surface-lost or implausible values; otherwise  *)
(* the surface handle is unchanged; when the surface is recreated the old  *)
(* swapchain is destroyed before the old surface.                          *)
C7_SurfaceRecreatedIffLostOrImplausible ==
    [][last'.call = "recreate_swapchain" =>
          LET log       == last'.log
              destroyed == Has(log, "destroy_surface")
          IN  /\ destroyed <=> last'.query \in {"SURFACE_LOST", "IMPLAUSIBLE"}
              /\ destroyed /\ last'.raised = "" =>
                    Has(log, "create_surface") /\ vk'.m_surface # NULL
              /\ ~destroyed =>
                    ~Has(log, "create_surface") /\ vk'.m_surface = vk.m_surface
              /\ destroyed =>
                    /\ Has(log, "destroy_swapchain")
                    /\ Precedes(log, "destroy_swapchain", "destroy_surface")]_vars

(* C7 witness: the query reported implausible values and the recreation    *)
(* rebuilt the surface and the swapchain.                                  *)
C7_Witness ==
    /\ last.call = "recreate_swapchain"
    /\ last.query = "IMPLAUSIBLE"
    /\ Has(last.log, "create_surface")
    /\ last.rcPath = "rebuilt"

(* C8: build_tlas with an empty instance list changes nothing of the       *)
(* manager (handle, instance count, backing buffer, instance buffer) and   *)
(* waits for, destroys and builds nothing.                                 *)
C8_EmptyBuildIsNoOp ==
    acall.name = "build_tlas" /\ acall.n = 0 =>
        /\ accel = acall.pre
        /\ acall.log = <<>>
        /\ acall.raised = ""

(* C8 witness: build_tlas was called with an empty list while a TLAS       *)
(* existed.                                                                *)
C8_Witness ==
    /\ acall.name = "build_tlas"
    /\ acall.n = 0
    /\ acall.pre.m_tlas.handle # NULL

(* C9: at most one TLAS is live; a non-empty build destroys the previous   *)
(* handle only after a device-idle wait and before it creates the new      *)
(* handle; after it returns the instance count is the list's length.       *)
C9_AtMostOneLiveTlas ==
    /\ Cardinality(LiveTlas(accel)) <= 1
    /\ accel.m_tlas.handle # NULL => LiveTlas(accel) = {accel.m_tlas.handle}
    /\ acall.name = "build_tlas" /\ acall.n > 0 =>
          /\ acall.pre.m_tlas.handle # NULL => Has(acall.log, "destroy_tlas")
          /\ \A j \in 1 .. Len(acall.log) :
                acall.log[j] = "destroy_tlas" =>
                    j > 1 /\ acall.log[j - 1] = "wait_idle"
          /\ Precedes(acall.log, "destroy_tlas", "create_tlas")
          /\ acall.raised = "" =>
                /\ Has(acall.log, "create_tlas")
                /\ accel.m_tlas.instance_count = acall.n

(* C9 witness: a non-empty build has replaced a TLAS that existed. *)
C9_Witness ==
    /\ acall.name = "build_tlas"
    /\ acall.n > 0
    /\ acall.pre.m_tlas.handle # NULL
    /\ acall.raised = ""

(* C10: every trace_rays of the frame loop is recorded with binding 0      *)
(* naming the manager's current, live TLAS: the descriptor is updated      *)
(* after the replacing build and before the loop, and the pipeline's       *)
(* initial descriptor write happens when a TLAS exists.                    *)
C10_TraceRaysBindsCurrentTlas ==
    /\ trace.recorded =>
          /\ trace.binding0 # NULL
          /\ trace.binding0 = trace.tlas
          /\ trace.live
    /\ rt.created => rt.initialWrite # NULL /\ rt.initialLive
    /\ pc \in {"loop", "begin_frame", "record", "end_frame"} =>
          rt.binding0 = accel.m_tlas.handle

(* C10 witness: trace_rays was recorded after the dungeon scene's build    *)
(* replaced the TLAS the pipeline was constructed with.                    *)
C10_Witness ==
    /\ trace.recorded
    /\ rt.initialWrite # NULL
    /\ trace.binding0 # rt.initialWrite
(* C20: a device call that fails during create_blas or build_tlas, the     *)
(* one-shot build command's allocate, begin, submit or wait included, is   *)
(* raised: neither call returns normally after it.                         *)
C20_AccelDeviceFailuresAreRaised ==
    acall.failed # "" => acall.raised # ""

(* C11: no buffer or image the descriptor set references is destroyed      *)
(* while a submission that binds the set has not completed: no call of the *)
(* pipeline destroys one with the queue non-empty.                         *)
C11_NoDestroyWhileSubmitted ==
    ~pcall.hazard

(* What C12 asks of one step for the buffer member buf filled by the       *)
(* function name with records of recSize bytes.                            *)
C12_Step(name, buf, cnt, bind, recSize) ==
    LET required == pcall'.n * recSize
        reallocated == Has(pcall'.log, "create_buffer")
        called == pcall'.seq # pcall.seq /\ pcall'.name = name /\ pcall'.n > 0
    IN  /\ rt'[buf].size >= rt[buf].size
        /\ rt'[cnt] * recSize <= rt'[buf].size
        /\ rt.created /\ ~called => rt'[buf] = rt[buf] /\ rt'[cnt] = rt[cnt]
        /\ called /\ pcall'.raised # "create_buffer" =>
              (reallocated <=> required > rt[buf].size)
        /\ called /\ reallocated =>
              /\ rt'[buf].size >= 2 * required
              /\ Has(pcall'.log, "write_" \o bind)
              /\ rt'[bind] = "current"
        /\ called /\ ~reallocated => rt'[buf] = rt[buf]

(* C12: over any sequence of set_instances and set_lights calls the        *)
(* capacity of each buffer never decreases, a call reallocates exactly     *)
(* when the bytes it needs exceed the capacity, the new capacity is at     *)
(* least twice the bytes needed, binding 2 (resp. 3) is written in the     *)
(* same call, and the stored count times the record size fits the          *)
(* capacity.                                                               *)
C12_BuffersOnlyGrow ==
    [][/\ C12_Step("set_instances", "m_instance_buffer", "m_instance_count",
                   "binding2", GlyphInstanceSize)
       /\ C12_Step("set_lights", "m_light_buffer", "m_light_count",
                   "binding3", LightSize)]_vars

(* The instance buffer has grown twice and holds the longest list. *)
C12_Witness ==
    /\ pcall.name = "set_instances"
    /\ Has(pcall.log, "create_buffer")
    /\ rt.m_instance_buffer.size >
           2 * (InitialInstanceCapacity + 1) * GlyphInstanceSize
    /\ rt.m_instance_count = pcall.n
    /\ rt.m_light_buffer.size > InitialLightCapacity * LightSize

(* C13: set_instances and set_lights with an empty list change nothing:    *)
(* the pipeline's buffers, capacities, counts and bindings, the device     *)
(* queue and the context are as before, nothing is recorded and nothing    *)
(* is raised.                                                              *)
C13_EmptyListIsNoOp ==
    [][/\ pcall'.seq # pcall.seq
       /\ pcall'.name \in {"set_instances", "set_lights"}
       /\ pcall'.n = 0
       => /\ rt' = rt
          /\ gpu' = gpu
          /\ vk' = vk
          /\ pcall'.log = <<>>
          /\ pcall'.raised = ""]_vars

(* An empty list handed to set_instances after both buffers were filled. *)
C13_Witness ==
    /\ pcall.name = "set_instances"
    /\ pcall.n = 0
    /\ rt.m_instance_count = InitialInstanceCapacity + 1
    /\ rt.m_light_count > 0

(* C14: resize_storage_image called with the dimensions of the call of     *)
(* resize_storage_image before it, which returned, leaves the image, its   *)
(* view, the stored dimensions and binding 1 as that call left them, and   *)
(* waits for nothing, destroys nothing and allocates nothing.              *)
C14_ResizeIdempotent ==
    [][/\ pcall'.seq # pcall.seq
       /\ pcall'.name = "resize_storage_image"
       /\ pcall.name = "resize_storage_image"
       /\ pcall.raised = ""
       /\ pcall'.args = pcall.args
       => /\ rt' = rt
          /\ pcall'.log = <<>>
          /\ pcall'.raised = ""
          /\ gpu' = gpu]_vars

(* A resize at the dimensions of an image that exists, with a submission   *)
(* in the queue, that did nothing.                                         *)
C14_Witness ==
    /\ pcall.name = "resize_storage_image"
    /\ pcall.args = <<MaxDim + 1, 1>>
    /\ pcall.log = <<>>
    /\ pcall.busy
    /\ gpu # <<>>
    /\ rt.m_storage_image # NULL
    /\ rt.binding1 = "current"

(* C15: when trace_rays(cmd, W, H, camera) has recorded its dispatch the   *)
(* output image exists with dimensions exactly (W, H) and binding 1 refers *)
(* to the view that image has now; and while the pipeline is in use        *)
(* binding 1 never refers to a destroyed view.                             *)
C15_DispatchHasSizedImage ==
    /\ pcall.name = "trace_rays" /\ pcall.raised = "" =>
          /\ rt.m_storage_image # NULL
          /\ rt.m_storage_image_view # NULL
          /\ rt.image_extent = pcall.args
          /\ rt.binding1 = "current"
    /\ pc = "pipeline" => rt.binding1 # "destroyed"

(* C16: a resize request with a zero width or a zero height does nothing:  *)
(* no wait, no destruction, no creation, no descriptor write, no error.    *)
C16_ZeroSizedResizeIsNoOp ==
    /\ pcall.name = "resize_storage_image"
    /\ pcall.args[1] = 0 \/ pcall.args[2] = 0
    => pcall.log = <<>> /\ pcall.raised = ""

(* C17 as stated: trace_rays never submits work and never waits for the    *)
(* device, whatever the width and height.                                  *)
C17_TraceRaysNeverWaits ==
    pcall.name = "trace_rays" =>
        /\ ~Has(pcall.log, "single_time_commands")
        /\ ~Has(pcall.log, "wait_idle")

(* C17: trace_rays never submits work, and it waits for the device to be   *)
(* idle exactly when the width and height differ from the stored ones; the *)
(* dispatch is the last thing it records.                                  *)
C17_TraceRaysWaitsOnlyToResize ==
    [][pcall'.seq # pcall.seq /\ pcall'.name = "trace_rays" =>
          /\ ~Has(pcall'.log, "single_time_commands")
          /\ gpu' # gpu => gpu' = <<>> /\ Has(pcall'.log, "wait_idle")
          /\ Has(pcall'.log, "wait_idle") <=> pcall'.args # rt.m_storage_extent
          /\ pcall'.raised = "" =>
                pcall'.log[Len(pcall'.log)] = "cmd_trace_rays"]_vars

(* trace_rays at new dimensions while a submission is in the queue: it     *)
(* waited, and recorded its dispatch.                                      *)
C17_Witness ==
    /\ pcall.name = "trace_rays"
    /\ pcall.busy
    /\ pcall.raised = ""
    /\ Has(pcall.log, "wait_idle")
    /\ Has(pcall.log, "cmd_trace_rays")
    /\ pcall.args = <<MaxDim + 1, 1>>

(* C18: capture_screenshot on a pipeline that has no output image returns  *)
(* empty bytes, raises nothing, waits for nothing, submits nothing and     *)
(* leaves the pipeline, the queue and the context as they were.            *)
C18_CaptureWithoutImageIsEmpty ==
    [][/\ pcall'.seq # pcall.seq
       /\ pcall'.name = "capture_screenshot"
       /\ rt.m_storage_image = NULL
       => /\ pcall'.result = "empty"
          /\ pcall'.raised = ""
          /\ pcall'.log = <<>>
          /\ rt' = rt
          /\ gpu' = gpu
          /\ vk' = vk]_vars

(* A capture before any image exists, with a submission in the queue. *)
C18_Witness ==
    /\ pcall.name = "capture_screenshot"
    /\ pcall.result = "empty"
    /\ pcall.busy
    /\ gpu # <<>>
    /\ rt.m_storage_image = NULL

(* C19: at every capture that copies the image, the image is in the        *)
(* GENERAL layout when the first transition is recorded and in GENERAL     *)
(* again when the call returns.                                            *)
C19_CaptureStartsAndEndsInGeneral ==
    pcall.name = "capture_screenshot" /\ pcall.result = "pixels" =>
        /\ pcall.captureFrom = "GENERAL"
        /\ rt.layout = "GENERAL"

(* The live objects that hold allocation h. *)
Holders(h) == {i \in BufferSlots : buffers.objs[i].alive /\ buffers.objs[i].m_buffer = h}

(* C21: every allocation is released at most once, and is unreleased       *)
(* exactly while one live Buffer holds it, so that it is released once     *)
(* when its owners are gone; a moved-from Buffer holds nothing;            *)
(* move-assignment releases what the target held and then holds what the   *)
(* source held; destroy and destruction of a Buffer that holds nothing     *)
(* release nothing.                                                        *)
C21_EveryAllocationReleasedOnce ==
    /\ \A h \in 1 .. buffers.next - 1 :
          /\ buffers.destroyed[h] <= 1
          /\ buffers.destroyed[h] = 0 <=> Cardinality(Holders(h)) = 1
          /\ buffers.destroyed[h] = 1 => Holders(h) = {}
    /\ \A h \in buffers.next .. MaxAllocations : buffers.destroyed[h] = 0
    /\ buffers.op \in {"move_construct", "move_assign"} /\ buffers.dst # buffers.src =>
          /\ buffers.objs[buffers.src] = EmptyBuffer
          /\ buffers.objs[buffers.dst].m_buffer = buffers.took
    /\ buffers.op = "move_assign" /\ buffers.dst # buffers.src /\ buffers.had # NULL =>
          /\ buffers.destroyed[buffers.had] = 1
          /\ buffers.log # <<>>
          /\ buffers.log[Len(buffers.log)] = <<"vmaDestroyBuffer", buffers.had>>
    /\ buffers.op \in {"destroy", "destruct"} /\ buffers.had = NULL =>
          buffers.log = <<>>
    /\ buffers.op \in {"destroy", "destruct"} /\ buffers.had # NULL =>
          buffers.destroyed[buffers.had] = 1

(* A move-assignment onto a Buffer that held a mapped allocation, from one *)
(* that held another.                                                      *)
C21_Witness ==
    /\ buffers.op = "move_assign"
    /\ buffers.dst # buffers.src
    /\ buffers.had # NULL
    /\ buffers.took # NULL
    /\ Has(buffers.log, <<"vmaUnmapMemory", buffers.had>>)

(* C22: a create_blas that returns gives the number of BLAS created before *)
(* it as the handle, and the BLAS it adds has a non-null handle and a      *)
(* non-null device address; no step of the manager changes the handle or   *)
(* the device address of a BLAS that exists, removes it from the list or   *)
(* destroys it on the device.                                              *)
C22_BlasIndexAndAddressStable ==
    [][LET old == accel.m_blas_list
           new == accel'.m_blas_list
       IN  /\ Len(new) >= Len(old)
           /\ \A j \in 1 .. Len(old) :
                 /\ new[j].handle = old[j].handle
                 /\ new[j].device_address = old[j].device_address
                 /\ old[j].handle # NULL => new[j].handle \in accel'.live
           /\ Len(new) > Len(old) /\ acall'.raised = "" =>
                 /\ acall'.name = "create_blas"
                 /\ Len(new) = Len(old) + 1
                 /\ acall'.result = Len(old)
                 /\ new[Len(new)].handle # NULL
                 /\ new[Len(new)].handle \in accel'.live
                 /\ new[Len(new)].device_address # 0]_vars

(* The second BLAS, created after a TLAS was built over the first. *)
C22_Witness ==
    /\ acall.name = "create_blas"
    /\ acall.raised = ""
    /\ acall.result = 1
    /\ Len(accel.m_blas_list) = 2
    /\ accel.m_tlas.handle # NULL
    /\ accel.m_blas_list[1].device_address # 0
    /\ accel.m_blas_list[2].device_address # accel.m_blas_list[1].device_address

(* C23: every light count reported to an external consumer (the scene-     *)
(* built log line, stats.get, scene.get) is the light array's length minus *)
(* one, and at every report the array is non-empty and its last record has *)
(* power zero.                                                             *)
C23_ReportedLightCount ==
    \A k \in 1 .. Len(lit.reports) :
        LET r == lit.reports[k]
        IN  /\ r.size >= 1
            /\ r.last_power = 0
            /\ r.light_count = r.size - 1

(* All three consumers have been given a count. *)
C23_Witness ==
    /\ \A by \in {"log", "stats.get", "scene.get"} :
          \E k \in 1 .. Len(lit.reports) : lit.reports[k].by = by
    /\ \E k \in 1 .. Len(lit.reports) : lit.reports[k].light_count = 9

(* v padded to a multiple of m. *)
PaddedTo(v, m) == CHOOSE p \in v .. v + m - 1 : p % m = 0

(* The bytes a region or a copy covers. *)
BytesOf(r) == r.offset .. (r.offset + r.size - 1)

(* C24: the raygen handle is at offset 0 of a region whose size is the     *)
(* handle size padded to the base alignment, miss handle i at the raygen   *)
(* size plus i times the handle size padded to the handle alignment, the   *)
(* hit handle at the raygen size plus the miss region's size; the three    *)
(* regions are pairwise disjoint and start at multiples of the base        *)
(* alignment, and every copy lies inside its own region and the buffer.    *)
C24_SbtLayout ==
    sbt.created =>
        LET h == sbt.handle_size
            b == sbt.base_alignment
            ha == PaddedTo(h, sbt.handle_alignment)
            raygen == sbt.m_raygen_region
            miss == sbt.m_miss_region
            hit == sbt.m_hit_region
            regionOf == <<raygen, miss, miss, miss, hit>>
        IN  /\ sbt.copies[1].offset = 0
            /\ raygen.offset = 0
            /\ raygen.size = PaddedTo(h, b)
            /\ \A i \in 0 .. 2 : sbt.copies[i + 2].offset = raygen.size + i * ha
            /\ sbt.copies[5].offset = raygen.size + miss.size
            /\ BytesOf(raygen) \cap BytesOf(miss) = {}
            /\ BytesOf(raygen) \cap BytesOf(hit) = {}
            /\ BytesOf(miss) \cap BytesOf(hit) = {}
            /\ \A r \in {raygen, miss, hit} : r.offset % b = 0
            /\ \A k \in 1 .. 5 :
                  /\ BytesOf(sbt.copies[k]) \subseteq BytesOf(regionOf[k])
                  /\ BytesOf(sbt.copies[k]) \subseteq 0 .. (sbt.total_size - 1)

(* C25: a pose written by camera.set is not lost: what an iteration reads  *)
(* of a field that a camera.set wrote before the iteration started, and    *)
(* that no camera.set has written since, is the value written, with the    *)
(* loop's own assignments since the write applied to it.                   *)
C25_CameraSetNotLost ==
    \A f \in PoseFields :
        cam.owed[f] # {} /\ cam.used[f] # {} => cam.used[f] = cam.owed[f]

(* C26: the frame slot m_current_frame is always 0 or 1; an end_frame that *)
(* returns normally advances it by one modulo 2, also when it ran a        *)
(* swapchain recreation; begin_frame, with or without a recreation, leaves *)
(* it as it was.                                                           *)
C26_FrameSlotAdvancesOnlyInEndFrame ==
    /\ [](vk.m_current_frame \in {0, 1})
    /\ [][/\ pc = "end_frame" /\ pc' = "loop"
              => vk'.m_current_frame = (vk.m_current_frame + 1) % 2
          /\ pc = "begin_frame" /\ pc' # pc
              => vk'.m_current_frame = vk.m_current_frame]_vars

(* An end_frame that recreated the swapchain has returned and the slot is  *)
(* back at 0, where the first frame started.                               *)
C26_Witness ==
    /\ last.call = "end_frame"
    /\ last.rcPath = "rebuilt"
    /\ last.raised = ""
    /\ pc = "loop"
    /\ vk.m_current_frame = 0

(* C27: in recreate_swapchain the image views and the swapchain are        *)
(* destroyed only after the device-idle wait, the old swapchain is         *)
(* destroyed before the new one is created, and the image views are        *)
(* created only after the new swapchain.                                   *)
C27_RecreateOrder ==
    last.call = "recreate_swapchain" =>
        /\ \A d \in {"destroy_image_views", "destroy_swapchain"} :
              Has(last.log, d) =>
                  /\ Has(last.log, "wait_idle")
                  /\ Precedes(last.log, "wait_idle", d)
        /\ Has(last.log, "create_swapchain") =>
              /\ Has(last.log, "destroy_swapchain")
              /\ Precedes(last.log, "destroy_swapchain", "create_swapchain")
        /\ Has(last.log, "create_image_views") =>
              /\ Has(last.log, "create_swapchain")
              /\ Precedes(last.log, "create_swapchain", "create_image_views")

(* A recreation that started with a zero-sized window, polled until it had *)
(* a size and rebuilt the swapchain and its views.                         *)
C27_Witness ==
    /\ last.call = "recreate_swapchain"
    /\ last.polls > 0
    /\ last.rcPath = "rebuilt"
    /\ Has(last.log, "destroy_image_views")
    /\ Has(last.log, "create_image_views")

(* C28: in end_frame the command buffer is submitted before the            *)
(* presentation, the presentation waits on the render-finished semaphore   *)
(* that submission signals, and a recreation end_frame runs starts only    *)
(* after the present call and after the window's resize flag was cleared.  *)
C28_EndFrameOrder ==
    last.call = "end_frame" =>
        /\ Has(last.log, "present") =>
              /\ Has(last.log, "submit")
              /\ Precedes(last.log, "submit", "present")
              /\ last.signals \in {RenderFinished(s) : s \in Slots}
              /\ last.waits = last.signals
        /\ last.rcEntered =>
              /\ Has(last.log, "present")
              /\ Has(last.log, "reset_resized_flag")
              /\ Has(last.log, "recreate_swapchain")
              /\ Precedes(last.log, "present", "reset_resized_flag")
              /\ Precedes(last.log, "reset_resized_flag", "recreate_swapchain")
              /\ \A e \in {"wait_idle", "destroy_image_views", "destroy_swapchain",
                           "destroy_surface", "create_surface",
                           "create_swapchain", "create_image_views"} :
                    Precedes(last.log, "recreate_swapchain", e)

(* An end_frame whose presentation succeeded with the resize flag set has  *)
(* rebuilt the swapchain.                                                  *)
C28_Witness ==
    /\ last.call = "end_frame"
    /\ last.present = "SUCCESS"
    /\ last.resizeSeen
    /\ last.rcPath = "rebuilt"
    /\ Has(last.log, "create_image_views")

(* C29: build_tlas and create_blas return only after the GPU has executed  *)
(* the build: a call that built something and returned normally has had    *)
(* its one-shot build command submitted and waited for.                    *)
C29_BuildFinishedOnReturn ==
    /\ acall.name = "build_tlas" /\ acall.n > 0 /\ acall.raised = ""
          => Has(acall.log, "build_tlas")
    /\ acall.name = "create_blas" /\ acall.raised = ""
          => Has(acall.log, "build_blas")

(* C30: between begin_frame and the matching end_frame of the frame loop   *)
(* begin_single_time_commands and end_single_time_commands are not         *)
(* invoked, neither directly nor through resize_storage_image or           *)
(* trace_rays.                                                             *)
C30_NoOneShotCommandsInFrame ==
    ~tick.oneShot

(* A frame has been recorded after begin_frame acquired an image: the      *)
(* output image exists at the swapchain's extent and end_frame is next.    *)
C30_Witness ==
    /\ pc = "end_frame"
    /\ tick.recorded
    /\ ~tick.skipped
    /\ rt.m_storage_image # NULL
    /\ rt.m_storage_extent = vk.m_swapchain_extent

(* C31: for each allocation the allocator's map and unmap calls alternate, *)
(* starting with a map; map on a mapped Buffer and unmap on an unmapped    *)
(* one make no allocator call; upload leaves the Buffer unmapped; and no   *)
(* allocation is released while it is mapped.                              *)
C31_MapUnmapAlternate ==
    /\ \A h \in Allocations :
          /\ buffers.maps[h] \in {0, 1}
          /\ buffers.destroyed[h] >= 1 => buffers.maps[h] = 0
          /\ buffers.maps[h] = 1 <=>
                \E i \in Holders(h) : buffers.objs[i].m_mapped
    /\ buffers.op = "map" /\ buffers.mapped => buffers.log = <<>>
    /\ buffers.op = "unmap" /\ ~buffers.mapped => buffers.log = <<>>
    /\ buffers.op = "upload" => ~buffers.objs[buffers.dst].m_mapped

(* An upload to a Buffer that was mapped when it was called: it copied and *)
(* unmapped without a map call of its own.                                 *)
C31_Witness ==
    /\ buffers.op = "upload"
    /\ buffers.mapped
    /\ buffers.log = <<<<"memcpy", buffers.had>>, <<"vmaUnmapMemory", buffers.had>>>>

(* C32: at shutdown every object is destroyed with no submission in the    *)
(* queue and before the device and the allocator: each destructor starts   *)
(* with a device-idle wait, the semaphores, fences and command pool go     *)
(* after the context's wait, and the pipeline and the manager have         *)
(* released every image, acceleration structure and buffer they hold       *)
(* before the allocator and the device are destroyed.                      *)
C32_TeardownOrder ==
    /\ ~td.busy
    /\ ~td.orphaned
    /\ \A i \in 1 .. Len(td.log) :
          td.log[i] \in {"~RTPipeline", "~AccelerationStructureManager",
                         "~VulkanContext"}
              => i < Len(td.log) /\ td.log[i + 1] = "wait_idle"
    /\ \A e \in {"destroy_sync_objects", "destroy_command_pool"} :
          Has(td.log, e) => Precedes(td.log, "~VulkanContext", e)
    /\ \A e \in {"destroy_image_view", "destroy_image", "destroy_pipeline_objects",
                 "release_light_buffer", "release_instance_ssbo",
                 "release_sbt_buffer", "destroy_tlas", "destroy_blas",
                 "release_instance_buffer", "release_tlas_buffer",
                 "release_blas_buffer"} :
          /\ Precedes(td.log, e, "destroy_allocator")
          /\ Precedes(td.log, e, "destroy_device")
    /\ td.stage \in {"accel_gone", "exited"} =>
          /\ accel.live = {}
          /\ accel.bufs = {}
          /\ rt.m_storage_image = NULL /\ rt.m_storage_image_view = NULL
          /\ rt.m_instance_buffer.handle = NULL /\ rt.m_light_buffer.handle = NULL
    /\ td.stage = "exited" => ~td.device /\ ~td.allocator /\ ~td.sync

(* The three destructors have run on a pipeline with an output image and a *)
(* manager with a TLAS and a BLAS.                                         *)
C32_Witness ==
    /\ td.stage = "exited"
    /\ Has(td.log, "destroy_image")
    /\ Has(td.log, "destroy_tlas")
    /\ Has(td.log, "destroy_blas")
    /\ Has(td.log, "destroy_sync_objects")

(* C33: at every build_tlas and set_instances call the instance array and  *)
(* the shading-record array have the same length and every instance's      *)
(* custom_index is its own position in the array.                          *)
C33_ArraysInLockstep ==
    \A k \in 1 .. Len(scene.calls) :
        LET c == scene.calls[k]
        IN  /\ Len(c.instances) = c.glyph_data
            /\ \A i \in 1 .. Len(c.instances) : c.instances[i] = i - 1

(* The dungeon scene has been built and handed to build_tlas and           *)
(* set_instances after the minimal scene was.                              *)
C33_Witness ==
    /\ scene.at = "built"
    /\ Len(scene.calls) = 3
    /\ scene.calls[3].name = "set_instances"
    /\ scene.calls[3].glyph_data > scene.calls[1].glyph_data

(* The program with a GPU that completes what is submitted to it. *)
SpecGpuFair == Init /\ [][Next]_vars /\ WF_vars(GpuComplete)

(* C34: with a GPU that completes every submission, whenever begin_frame   *)
(* is reached the fence of the current frame slot is eventually signaled,  *)
(* so its fence wait returns.                                              *)
C34_FenceWaitReturns ==
    (pc = "begin_frame") ~>
        (pc = "begin_frame" /\ vk.m_in_flight_fences[vk.m_current_frame])

(* begin_frame is reached with the fence of its slot unsignaled: the wait  *)
(* has to block until the slot's submission completes.                     *)
C34_Witness ==
    /\ pc = "begin_frame"
    /\ ~vk.m_in_flight_fences[vk.m_current_frame]
    /\ vk.m_current_frame \in SeqToSet(gpu)

----------------------------------------------------------------------------
(* C35: no per-slot semaphore is reused while still in use: when           *)
(* end_frame's submission signals a slot's render-finished semaphore no    *)
(* earlier presentation request still waits on it, and when begin_frame    *)
(* hands a slot's image-available semaphore to acquisition no earlier      *)
(* signal on it is unconsumed and no earlier wait on it is pending.        *)
C35_NoSemaphoreReuse ==
    /\ sem.op = "submit" => sem.pending_waits = 0
    /\ sem.op = "acquire" => sem.pending_waits = 0 /\ ~sem.unconsumed

----------------------------------------------------------------------------
(* C36: whenever the frame loop reads current_swapchain_image() (the body  *)
(* of the iteration, right after begin_frame), the stored image index is   *)
(* less than the number of images of the current swapchain and was         *)
(* returned by an acquisition on that swapchain: it is not an index that   *)
(* predates a swapchain begin_frame's early return has just rebuilt.       *)
C36_ImageIndexValid ==
    pc = "record" =>
        /\ vk.m_image_index < vk.m_swapchain_images
        /\ ~(last.early /\ last.rcPath = "rebuilt")

----------------------------------------------------------------------------
(* C37: when the end-of-run screenshot is written, the width and height    *)
(* used to walk the pixel buffer equal the output image's dimensions at    *)
(* capture time, and every pixel index read lies inside the                *)
(* width * height * 4 bytes capture_screenshot returned.                   *)
C37_ScreenshotWalkInsideBuffer ==
    shot.written =>
        /\ shot.width = shot.image_width
        /\ shot.height = shot.image_height
        /\ LastIndexRead(shot.width, shot.height) < shot.bytes

----------------------------------------------------------------------------
(* C38: on every normal return from recreate_swapchain the swapchain       *)
(* handle is non-null and there is exactly one image view per image of the *)
(* current swapchain; on the give-up and query-failure paths the old       *)
(* swapchain and its views were not destroyed, on the other path the       *)
(* swapchain was rebuilt.                                                  *)
C38_SwapchainWholeOnReturn ==
    last.call = "recreate_swapchain" /\ last.raised = "" =>
        /\ vk.m_swapchain # NULL
        /\ vk.m_swapchain_images > 0
        /\ vk.m_swapchain_image_views = vk.m_swapchain_images
        /\ last.rcPath \in {"gave_up", "query_failed", "rebuilt"}
        /\ last.rcPath \in {"gave_up", "query_failed"} =>
               /\ ~Has(last.log, "destroy_swapchain")
               /\ ~Has(last.log, "destroy_image_views")
               /\ ~Has(last.log, "create_swapchain")
        /\ last.rcPath = "rebuilt" =>
               /\ Precedes(last.log, "destroy_swapchain", "create_swapchain")
               /\ Has(last.log, "create_swapchain")
               /\ Has(last.log, "create_image_views")

(* A recreation returned normally after the capability query failed, with  *)
(* the two-image swapchain it was entered with.                            *)
C38_Witness ==
    /\ last.call = "recreate_swapchain" /\ last.raised = ""
    /\ last.rcPath = "query_failed"
    /\ vk.m_swapchain_images = 2 /\ vk.m_swapchain_image_views = 2

----------------------------------------------------------------------------
(* C39: before the first trace_rays is recorded (from the first iteration  *)
(* of the frame loop on, and at every dispatch) set_instances and          *)
(* set_lights have each completed with a non-empty list, and the uploaded  *)
(* light list ends in a record of power zero: no dispatch reads the        *)
(* pipeline's initial, never-written instance or light buffer.             *)
C39_BuffersWrittenBeforeTrace ==
    pc \in {"loop", "begin_frame", "record", "end_frame"} \/ trace.recorded =>
        /\ rt.m_instance_count > 0
        /\ rt.m_light_count > 0
        /\ rt.m_instance_buffer.handle # NULL
        /\ rt.m_light_buffer.handle # NULL
        /\ Len(lit.uploaded) = rt.m_light_count
        /\ lit.uploaded[Len(lit.uploaded)] = 0

(* A dispatch has been recorded with the dungeon's instances and its ten   *)
(* lights uploaded.                                                        *)
C39_Witness ==
    /\ trace.recorded
    /\ rt.m_instance_count = Len(DungeonScene)
    /\ rt.m_light_count = DungeonLightCount
    /\ lit.uploaded = lit.lights

----------------------------------------------------------------------------
(* C40: the backing buffer of an acceleration structure is never released  *)
(* while its handle is live: a live TLAS or BLAS handle has its buffers    *)
(* allocated; build_tlas and the manager's destructor destroy a handle     *)
(* before they release its backing and instance buffers; create_blas       *)
(* releases no buffer and leaves every earlier BLAS its buffer.            *)
C40_BuffersOutliveHandles ==
    /\ accel.m_tlas.handle \in accel.live =>
          /\ accel.m_tlas.buffer \in accel.bufs
          /\ accel.m_tlas.instance_buffer \in accel.bufs
    /\ \A i \in 1 .. Len(accel.m_blas_list) :
          accel.m_blas_list[i].handle \in accel.live =>
              accel.m_blas_list[i].buffer \in accel.bufs
    /\ \A e \in {"release_instance_buffer", "release_tlas_buffer"} :
          /\ Has(acall.log, e) /\ acall.pre.m_tlas.handle # NULL =>
                Has(acall.log, "destroy_tlas") /\ Precedes(acall.log, "destroy_tlas", e)
          /\ Precedes(td.log, "destroy_tlas", e)
    /\ Precedes(td.log, "destroy_blas", "release_blas_buffer")
    /\ acall.name = "create_blas" =>
          /\ ~Has(acall.log, "release_blas_buffer")
          /\ td.stage \in {"live", "pipeline_gone"} =>
                \A i \in 1 .. Len(acall.pre.m_blas_list) :
                    /\ accel.m_blas_list[i].buffer = acall.pre.m_blas_list[i].buffer
                    /\ acall.pre.m_blas_list[i].buffer # NULL =>
                          accel.m_blas_list[i].buffer \in accel.bufs

(* The manager's destructor has run on a manager that had rebuilt its TLAS *)
(* and held a BLAS.                                                        *)
C40_Witness ==
    /\ td.stage = "accel_gone"
    /\ Has(td.log, "destroy_tlas") /\ Has(td.log, "release_tlas_buffer")
    /\ Has(td.log, "destroy_blas") /\ Has(td.log, "release_blas_buffer")
    /\ acall.name = "build_tlas"
    /\ Has(acall.log, "destroy_tlas") /\ Has(acall.log, "release_tlas_buffer")

====
